---- MODULE Spec2Model ----
(***************************************************************************)
(* A model of the particle core of the Cyclone physics system: particle    *)
(* contacts (pcontacts.cpp), links (plinks.cpp), the force registry        *)
(* (pfgen.cpp) and the particle world (pworld.cpp).                        *)
(*                                                                         *)
(* The C++ type `real` is modelled by exact rationals <<n, d>> in lowest   *)
(* terms with d > 0; Vector3 by a triple of rationals.  C++ arrays are     *)
(* 0-based, TLA+ tuples 1-based: particle[0] is c.particle[1] here.        *)
(***************************************************************************)
EXTENDS Integers, Sequences, FiniteSets, TLC

VARIABLES
    particles,      \* particle id -> Particle (the host's particle storage)
    contacts,       \* the contact buffer: a sequence of ParticleContact
    duration,       \* the real passed as `duration`
    link,           \* the ParticleCable / ParticleRod under test
    registrations,  \* ParticleForceRegistry::registrations
    generators,     \* force generator id -> ParticleForceGenerator object
    world,          \* ParticleWorld: maxContacts, contactGenerators
    resolver,       \* ParticleContactResolver: iterations, iterationsUsed
    lastOp,         \* the operation that ran last, with its arguments
    retval,         \* what the last operation returned
    pre,            \* the particles as they were when the last operation began
    hist            \* history the claims refer to (calls made, reference list)

vars == <<particles, contacts, duration, link, registrations, generators,
          world, resolver, lastOp, retval, pre, hist>>

----------------------------------------------------------------------------
(* real: exact rational arithmetic *)

Abs(i) == IF i < 0 THEN -i ELSE i

RECURSIVE Gcd(_, _)
Gcd(a, b) == IF b = 0 THEN a ELSE Gcd(b, a % b)

\* The rational n/d in lowest terms, d > 0.
Rat(n, d) ==
    LET g == Gcd(Abs(n), Abs(d))
        s == IF d < 0 THEN -1 ELSE 1
    IN  <<(s * n) \div g, (s * d) \div g>>

R(i) == <<i, 1>>
Zero == R(0)
One == R(1)

RAdd(a, b) == Rat(a[1] * b[2] + b[1] * a[2], a[2] * b[2])
RNeg(a) == <<-a[1], a[2]>>
RSub(a, b) == RAdd(a, RNeg(b))
RMul(a, b) == Rat(a[1] * b[1], a[2] * b[2])
\* a / b, for b # 0
RDiv(a, b) == Rat(a[1] * b[2], a[2] * b[1])
RLt(a, b) == a[1] * b[2] < b[1] * a[2]
RLe(a, b) == a[1] * b[2] <= b[1] * a[2]
RGt(a, b) == RLt(b, a)
RGe(a, b) == RLe(b, a)

\* The least natural number whose square is at least n.
CeilRoot(n) == CHOOSE r \in 0..n : r * r >= n /\ (r = 0 \/ (r - 1) * (r - 1) < n)
IsSquare(n) == n >= 0 /\ CeilRoot(n) * CeilRoot(n) = n
ISqrt(n) == CHOOSE r \in 0..n : r * r = n
\* real_sqrt, exact on the rationals whose root is rational; the inputs of
\* the model are chosen so that no other root is taken.
HasRoot(a) == IsSquare(a[1]) /\ IsSquare(a[2])
RSqrt(a) == <<ISqrt(a[1]), ISqrt(a[2])>>

----------------------------------------------------------------------------
(* Vector3 *)

Vec(x, y, z) == <<R(x), R(y), R(z)>>
VZero == Vec(0, 0, 0)
VAdd(a, b) == <<RAdd(a[1], b[1]), RAdd(a[2], b[2]), RAdd(a[3], b[3])>>
VSub(a, b) == <<RSub(a[1], b[1]), RSub(a[2], b[2]), RSub(a[3], b[3])>>
\* Vector3 * real
VScale(a, k) == <<RMul(a[1], k), RMul(a[2], k), RMul(a[3], k)>>
\* Vector3 * Vector3: the scalar product
Dot(a, b) == RAdd(RAdd(RMul(a[1], b[1]), RMul(a[2], b[2])), RMul(a[3], b[3]))
SquareMagnitude(a) == Dot(a, a)
Magnitude(a) == RSqrt(SquareMagnitude(a))
\* Vector3::normalise: scales a non-zero vector to unit length and leaves the
\* zero vector as it is.
Normalise(a) ==
    LET l == Magnitude(a)
    IN  IF RGt(l, Zero) THEN VScale(a, RDiv(One, l)) ELSE a
IsUnit(a) == SquareMagnitude(a) = One

----------------------------------------------------------------------------
(* Particle *)

NULL == 0

NewParticle(pos, vel, acc, im) ==
    [position |-> pos, velocity |-> vel, acceleration |-> acc,
     forceAccum |-> VZero, inverseMass |-> im, damping |-> One]

getInverseMass(p) == p.inverseMass
hasFiniteMass(p) == p.inverseMass # Zero
getMass(p) == RDiv(One, p.inverseMass)
setVelocity(ps, i, v) == [ps EXCEPT ![i].velocity = v]
setPosition(ps, i, x) == [ps EXCEPT ![i].position = x]
addForce(ps, i, f) == [ps EXCEPT ![i].forceAccum = VAdd(@, f)]

----------------------------------------------------------------------------
(* ParticleContact (pcontacts.cpp) *)

NewContact(p0, p1, rest, normal, pen) ==
    [particle |-> <<p0, p1>>, restitution |-> rest, contactNormal |-> normal,
     penetration |-> pen, particleMovement |-> <<VZero, VZero>>]

\* A separating velocity that leaves particle[1]'s velocity out.
calculateSeparatingVelocity_OneSided(c, ps) ==
    Dot(ps[c.particle[1]].velocity, c.contactNormal)

calculateSeparatingVelocity(c, ps) ==
    LET v0 == ps[c.particle[1]].velocity
        relativeVelocity ==
            IF c.particle[2] # NULL
            THEN VSub(v0, ps[c.particle[2]].velocity) ELSE v0
    IN  Dot(relativeVelocity, c.contactNormal)

totalInverseMass(c, ps) ==
    LET im0 == getInverseMass(ps[c.particle[1]])
    IN  IF c.particle[2] # NULL
        THEN RAdd(im0, getInverseMass(ps[c.particle[2]])) ELSE im0

\* The new separating velocity: lines 41-57 of resolveVelocity.
newSepVelocity(c, ps, dur, separatingVelocity) ==
    LET new0 == RMul(RNeg(separatingVelocity), c.restitution)
        a0 == ps[c.particle[1]].acceleration
        accelCausedVelocity ==
            IF c.particle[2] # NULL
            THEN VSub(a0, ps[c.particle[2]].acceleration) ELSE a0
        accelCausedSepVelocity ==
            RMul(Dot(accelCausedVelocity, c.contactNormal), dur)
        new1 == RAdd(new0, RMul(c.restitution, accelCausedSepVelocity))
    IN  IF RLt(accelCausedSepVelocity, Zero)
        THEN (IF RLt(new1, Zero) THEN Zero ELSE new1)
        ELSE new0

\* A resolveVelocity without the early return for a separating contact.
resolveVelocity_AlwaysBounces(c, ps, dur) ==
    LET p0 == c.particle[1]
        p1 == c.particle[2]
        separatingVelocity == calculateSeparatingVelocity(c, ps)
        deltaVelocity ==
            RSub(newSepVelocity(c, ps, dur, separatingVelocity), separatingVelocity)
        tim == totalInverseMass(c, ps)
        impulse == RDiv(deltaVelocity, tim)
        impulsePerIMass == VScale(c.contactNormal, impulse)
        ps0 == setVelocity(ps, p0,
                   VAdd(ps[p0].velocity,
                        VScale(impulsePerIMass, getInverseMass(ps[p0]))))
    IN  IF RLe(tim, Zero) THEN ps
        ELSE IF p1 # NULL
             THEN setVelocity(ps0, p1,
                      VAdd(ps0[p1].velocity,
                           VScale(impulsePerIMass, RNeg(getInverseMass(ps0[p0])))))
             ELSE ps0

\* resolveVelocity: the particles after the call.  Particle 1's change is
\* scaled by particle[0]'s inverse mass, as line 86 has it.
resolveVelocity(c, ps, dur) ==
    LET p0 == c.particle[1]
        p1 == c.particle[2]
        separatingVelocity == calculateSeparatingVelocity(c, ps)
        deltaVelocity ==
            RSub(newSepVelocity(c, ps, dur, separatingVelocity), separatingVelocity)
        tim == totalInverseMass(c, ps)
        impulse == RDiv(deltaVelocity, tim)
        impulsePerIMass == VScale(c.contactNormal, impulse)
        ps0 == setVelocity(ps, p0,
                   VAdd(ps[p0].velocity,
                        VScale(impulsePerIMass, getInverseMass(ps[p0]))))
    IN  IF RGt(separatingVelocity, Zero) THEN ps
        ELSE IF RLe(tim, Zero) THEN ps
        ELSE IF p1 # NULL
             THEN setVelocity(ps0, p1,
                      VAdd(ps0[p1].velocity,
                           VScale(impulsePerIMass, RNeg(getInverseMass(ps0[p0])))))
             ELSE ps0

\* A resolveInterpenetration that also brings particle[0] to rest.
resolveInterpenetration_StopsParticle(c, ps, dur) ==
    LET p0 == c.particle[1]
        p1 == c.particle[2]
        tim == totalInverseMass(c, ps)
        movePerIMass == VScale(c.contactNormal, RDiv(c.penetration, tim))
        m0 == VScale(movePerIMass, getInverseMass(ps[p0]))
        m1 == IF p1 # NULL
              THEN VScale(movePerIMass, getInverseMass(ps[p1])) ELSE VZero
        ps0 == setVelocity(setPosition(ps, p0, VAdd(ps[p0].position, m0)),
                           p0, VZero)
    IN  IF RLe(c.penetration, Zero) THEN [ps |-> ps, c |-> c]
        ELSE IF RLe(tim, Zero) THEN [ps |-> ps, c |-> c]
        ELSE [ps |-> IF p1 # NULL
                     THEN setPosition(ps0, p1, VAdd(ps0[p1].position, m1))
                     ELSE ps0,
              c  |-> [c EXCEPT !.particleMovement = <<m0, m1>>]]

\* resolveInterpenetration: the particles and the contact after the call.
resolveInterpenetration(c, ps, dur) ==
    LET p0 == c.particle[1]
        p1 == c.particle[2]
        tim == totalInverseMass(c, ps)
        movePerIMass == VScale(c.contactNormal, RDiv(c.penetration, tim))
        m0 == VScale(movePerIMass, getInverseMass(ps[p0]))
        m1 == IF p1 # NULL
              THEN VScale(movePerIMass, getInverseMass(ps[p1])) ELSE VZero
        ps0 == setPosition(ps, p0, VAdd(ps[p0].position, m0))
    IN  IF RLe(c.penetration, Zero) THEN [ps |-> ps, c |-> c]
        ELSE IF RLe(tim, Zero) THEN [ps |-> ps, c |-> c]
        ELSE [ps |-> IF p1 # NULL
                     THEN setPosition(ps0, p1, VAdd(ps0[p1].position, m1))
                     ELSE ps0,
              c  |-> [c EXCEPT !.particleMovement = <<m0, m1>>]]

\* resolve: resolveVelocity, then resolveInterpenetration.
resolve(c, ps, dur) ==
    resolveInterpenetration(c, resolveVelocity(c, ps, dur), dur)

----------------------------------------------------------------------------
(* Values shared by the specifications *)

\* Variables a specification does not use stay at these values.
NoLink == [kind |-> "none"]
NoWorld == [maxContacts |-> 0, contactGenerators |-> <<>>]
NoResolver == [iterations |-> 0, iterationsUsed |-> 0]
NoOp == [name |-> "none"]

Call(name) == [name |-> name]

----------------------------------------------------------------------------
(* SpecContact: one contact, resolved by the methods of ParticleContact *)

\* How many ParticleContact methods one behaviour calls.
MaxOps == 2

Velocities == {VZero, Vec(-1, 0, 0), Vec(2, -1, 0)}
Accelerations == {VZero, Vec(0, -10, 0)}
InverseMasses == {Zero, One, Rat(1, 2)}
Restitutions == {Zero, Rat(1, 2)}
Normals == {Vec(1, 0, 0), Vec(0, 1, 0), <<Rat(3, 5), Rat(4, 5), Zero>>}
Penetrations == {Zero, One}
Durations == {Rat(1, 10)}

InitContact ==
    /\ \E v0 \in Velocities, v1 \in Velocities, a0 \in Accelerations,
          im0 \in InverseMasses, im1 \in InverseMasses :
          particles = <<NewParticle(Vec(0, 0, 0), v0, a0, im0),
                        NewParticle(Vec(1, 0, 0), v1, VZero, im1)>>
    /\ \E p1 \in {NULL, 2}, rest \in Restitutions, n \in Normals,
          pen \in Penetrations :
          contacts = <<NewContact(1, p1, rest, n, pen)>>
    /\ duration \in Durations
    /\ link = NoLink
    /\ registrations = <<>>
    /\ generators = <<>>
    /\ world = NoWorld
    /\ resolver = NoResolver
    /\ lastOp = NoOp
    /\ retval = 0
    /\ pre = particles
    /\ hist = [ops |-> 0, before |-> contacts]

ContactFrame ==
    /\ hist.ops < MaxOps
    /\ hist' = [ops |-> hist.ops + 1, before |-> contacts]
    /\ pre' = particles
    /\ UNCHANGED <<duration, link, registrations, generators, world, resolver>>

DoCalculateSeparatingVelocity ==
    /\ ContactFrame
    /\ lastOp' = Call("calculateSeparatingVelocity")
    /\ retval' = calculateSeparatingVelocity(contacts[1], particles)
    /\ UNCHANGED <<particles, contacts>>

DoResolveVelocity ==
    /\ ContactFrame
    /\ lastOp' = Call("resolveVelocity")
    /\ particles' = resolveVelocity(contacts[1], particles, duration)
    /\ UNCHANGED <<contacts, retval>>

DoResolveInterpenetration ==
    /\ ContactFrame
    /\ lastOp' = Call("resolveInterpenetration")
    /\ LET r == resolveInterpenetration(contacts[1], particles, duration)
       IN  /\ particles' = r.ps
           /\ contacts' = <<r.c>>
    /\ UNCHANGED retval

DoResolve ==
    /\ ContactFrame
    /\ lastOp' = Call("resolve")
    /\ LET r == resolve(contacts[1], particles, duration)
       IN  /\ particles' = r.ps
           /\ contacts' = <<r.c>>
    /\ UNCHANGED retval

NextContact ==
    \/ DoCalculateSeparatingVelocity
    \/ DoResolveVelocity
    \/ DoResolveInterpenetration
    \/ DoResolve

SpecContact == InitContact /\ [][NextContact]_vars

ResolveOps == {"resolve", "resolveVelocity", "resolveInterpenetration"}
Participants(c) == {c.particle[k] : k \in 1..2} \ {NULL}

\* C1: every resolve, resolveVelocity and resolveInterpenetration leaves the
\* velocity and the position of each participant of the contact whose
\* inverseMass is 0 as they were before the call.
C1_ImmovableParticipantUnchanged ==
    lastOp.name \in ResolveOps =>
        \A p \in Participants(contacts[1]) :
            particles[p].inverseMass = Zero =>
                /\ particles[p].velocity = pre[p].velocity
                /\ particles[p].position = pre[p].position

\* C2: after resolveVelocity on a contact between two finite-mass particles
\* with restitution 0 that was not separating (separating velocity <= 0), the
\* separating velocity computed by calculateSeparatingVelocity is 0.
C2_ClosingVelocityCancelled ==
    LET c == contacts[1]
    IN  (/\ lastOp.name = "resolveVelocity"
         /\ c.particle[2] # NULL
         /\ \A p \in Participants(c) : RGt(pre[p].inverseMass, Zero)
         /\ c.restitution = Zero
         /\ RLe(calculateSeparatingVelocity(c, pre), Zero))
        => calculateSeparatingVelocity(c, particles) = Zero

\* C18: for a contact between two particles with penetration > 0 and total
\* inverse mass > 0, resolveInterpenetration sets particleMovement[i] to a
\* displacement along the contact normal of size penetration * inverseMass_i
\* / totalInverseMass, particle[1]'s opposite to particle[0]'s, and adds them
\* to the positions, so that the particles' relative displacement along the
\* normal is the penetration.
C18_InterpenetrationRemoved ==
    (/\ lastOp.name = "resolveInterpenetration"
     /\ contacts[1].particle[2] # NULL
     /\ RGt(contacts[1].penetration, Zero)
     /\ RGt(totalInverseMass(contacts[1], pre), Zero)) =>
        LET c == contacts[1]
            p0 == c.particle[1]
            p1 == c.particle[2]
            share(i) == RDiv(RMul(c.penetration, getInverseMass(pre[i])),
                             totalInverseMass(c, pre))
            moved0 == VSub(particles[p0].position, pre[p0].position)
            moved1 == VSub(particles[p1].position, pre[p1].position)
        IN  /\ c.particleMovement[1] = VScale(c.contactNormal, share(p0))
            /\ c.particleMovement[2] = VScale(c.contactNormal, RNeg(share(p1)))
            /\ moved0 = c.particleMovement[1]
            /\ moved1 = c.particleMovement[2]
            /\ Dot(VSub(moved0, moved1), c.contactNormal) = c.penetration

----------------------------------------------------------------------------
(* ParticleLink, ParticleCable, ParticleRod (plinks.cpp) *)

NewCable(p0, p1, maxLength, rest) ==
    [kind |-> "cable", particle |-> <<p0, p1>>, maxLength |-> maxLength,
     restitution |-> rest]
NewRod(p0, p1, length) ==
    [kind |-> "rod", particle |-> <<p0, p1>>, length |-> length]

\* A slot of the contact buffer that nothing has been written to.
BlankContact == NewContact(NULL, NULL, Zero, VZero, Zero)

currentLength(l, ps) ==
    Magnitude(VSub(ps[l.particle[1]].position, ps[l.particle[2]].position))

\* cableAddContact with the taut test off by one: a cable exactly at its
\* maximum length yields no contact.
cableAddContact_TautExclusive(l, ps, buf, at, limit) ==
    LET length == Magnitude(VSub(ps[l.particle[1]].position,
                                 ps[l.particle[2]].position))
        normal == Normalise(VSub(ps[l.particle[2]].position,
                                 ps[l.particle[1]].position))
    IN  IF RLe(length, l.maxLength) THEN [n |-> 0, buf |-> buf]
        ELSE [n |-> 1,
              buf |-> [buf EXCEPT ![at].particle = l.particle,
                                  ![at].contactNormal = normal,
                                  ![at].penetration = RSub(length, l.maxLength),
                                  ![at].restitution = l.restitution]]

\* cableAddContact writing one contact for each end of the cable, whatever
\* the limit: two contacts, in contact[0] and contact[1].
cableAddContact_OnePerEnd(l, ps, buf, at, limit) ==
    LET length == Magnitude(VSub(ps[l.particle[1]].position,
                                 ps[l.particle[2]].position))
        normal == Normalise(VSub(ps[l.particle[2]].position,
                                 ps[l.particle[1]].position))
        c == [particle |-> l.particle, restitution |-> l.restitution,
              contactNormal |-> normal,
              penetration |-> RSub(length, l.maxLength),
              particleMovement |-> <<VZero, VZero>>]
    IN  IF RLt(length, l.maxLength) THEN [n |-> 0, buf |-> buf]
        ELSE [n |-> 2, buf |-> [buf EXCEPT ![at] = c, ![at + 1] = c]]

\* ParticleCable::addContact(contact, limit), contact pointing at slot `at`
\* of the buffer buf: the count returned and the buffer after the call.
\* limit is not read.
cableAddContact(l, ps, buf, at, limit) ==
    LET length == currentLength(l, ps)
        normal == Normalise(VSub(ps[l.particle[2]].position,
                                 ps[l.particle[1]].position))
    IN  IF RLt(length, l.maxLength) THEN [n |-> 0, buf |-> buf]
        ELSE [n |-> 1,
              buf |-> [buf EXCEPT ![at].particle = l.particle,
                                  ![at].contactNormal = normal,
                                  ![at].penetration = RSub(length, l.maxLength),
                                  ![at].restitution = l.restitution]]

\* ParticleRod::addContact(contact, limit).  Line 48 tests the value of the
\* assignment currentLen = length: it stores length in currentLen and is true
\* exactly when length is not 0.  limit is not read.
rodAddContact(l, ps, buf, at, limit) ==
    LET measured == currentLength(l, ps)
        currentLen == l.length
        normal == Normalise(VSub(ps[l.particle[2]].position,
                                 ps[l.particle[1]].position))
    IN  IF currentLen # Zero THEN [n |-> 0, buf |-> buf]
        ELSE [n |-> 1,
              buf |-> IF RGt(currentLen, l.length)
                      THEN [buf EXCEPT
                               ![at].particle = l.particle,
                               ![at].contactNormal = normal,
                               ![at].penetration = RSub(currentLen, l.length),
                               ![at].restitution = Zero]
                      ELSE [buf EXCEPT
                               ![at].particle = l.particle,
                               ![at].contactNormal = VScale(normal, R(-1)),
                               ![at].penetration = RSub(l.length, currentLen),
                               ![at].restitution = Zero]]

\* The virtual call addContact(contact, limit) on a link.
addContact(l, ps, buf, at, limit) ==
    IF l.kind = "cable" THEN cableAddContact(l, ps, buf, at, limit)
    ELSE rodAddContact(l, ps, buf, at, limit)

----------------------------------------------------------------------------
(* SpecLinks: one link between two particles, asked for its contact *)

\* Link lengths are 0..MaxLinkLen, limits 0..MaxLimit.
MaxLinkLen == 3
MaxLimit == 2
\* Slots of the contact buffer; addContact is given the first.
BufferSize == 2

Points == {Vec(0, 0, 0), Vec(1, 0, 0), Vec(2, 0, 0), Vec(4, 0, 0),
           Vec(0, 3, 0), Vec(0, 0, 2)}
\* Pairs of points whose distance is rational (see RSqrt).
PointPairs ==
    {pq \in Points \X Points : HasRoot(SquareMagnitude(VSub(pq[1], pq[2])))}
LinkLengths == {R(k) : k \in 0..MaxLinkLen}
Cables ==
    {NewCable(1, 2, len, rest) : len \in LinkLengths, rest \in Restitutions}
Rods == {NewRod(1, 2, len) : len \in LinkLengths}

InitLinks ==
    /\ \E pq \in PointPairs, im0 \in InverseMasses :
          particles = <<NewParticle(pq[1], VZero, VZero, im0),
                        NewParticle(pq[2], VZero, VZero, Zero)>>
    /\ contacts = [k \in 1..BufferSize |-> BlankContact]
    /\ duration \in Durations
    /\ link \in Cables \/ link \in Rods
    /\ registrations = <<>>
    /\ generators = <<>>
    /\ world = NoWorld
    /\ resolver = NoResolver
    /\ lastOp = NoOp
    /\ retval = 0
    /\ pre = particles
    /\ hist = [ops |-> 0, contacts |-> contacts]

\* One call in a behaviour: the buffer is blank when addContact is called, so
\* the slots it writes are the slots that differ afterwards.
LinkFrame ==
    /\ hist.ops = 0
    /\ hist' = [ops |-> hist.ops + 1, contacts |-> contacts]
    /\ pre' = particles
    /\ UNCHANGED <<particles, duration, link, registrations, generators, world, resolver>>

CableAddContact ==
    /\ link.kind = "cable"
    /\ LinkFrame
    /\ \E limit \in 0..MaxLimit :
          LET r == cableAddContact(link, particles, contacts, 1, limit)
          IN  /\ lastOp' = [name |-> "cableAddContact", limit |-> limit]
              /\ retval' = r.n
              /\ contacts' = r.buf

RodAddContact ==
    /\ link.kind = "rod"
    /\ LinkFrame
    /\ \E limit \in 0..MaxLimit :
          LET r == rodAddContact(link, particles, contacts, 1, limit)
          IN  /\ lastOp' = [name |-> "rodAddContact", limit |-> limit]
              /\ retval' = r.n
              /\ contacts' = r.buf

NextLinks == CableAddContact \/ RodAddContact

SpecLinks == InitLinks /\ [][NextLinks]_vars

\* The slots of the buffer the last addContact changed.
SlotsWritten == {k \in 1..Len(contacts) : contacts[k] # hist.contacts[k]}
LinkDistance == currentLength(link, particles)
LinkSeparation ==
    VSub(particles[link.particle[2]].position,
         particles[link.particle[1]].position)

\* C3: ParticleRod::addContact returns 0 and writes nothing to the contact
\* buffer whenever the distance between the rod's particles equals the rod's
\* length, for every length, 0 included.
C3_RodAtNominalLengthNoContact ==
    (lastOp.name = "rodAddContact" /\ LinkDistance = link.length)
        => (retval = 0 /\ contacts = hist.contacts)

\* The contact a taut cable writes, but for the normal.
CableContactWritten(c) ==
    /\ c.particle = link.particle
    /\ c.penetration = RSub(LinkDistance, link.maxLength)
    /\ RGe(c.penetration, Zero)
    /\ c.restitution = link.restitution
\* n is the unit vector from particle[0] toward particle[1].
UnitTowardParticle1(n) ==
    IsUnit(n) /\ VScale(n, LinkDistance) = LinkSeparation

\* C4 as stated: ParticleCable::addContact returns 0 and writes nothing when
\* currentLength < maxLength; otherwise it returns 1 and writes exactly one
\* contact: the cable's particles, the unit normal from particle[0] toward
\* particle[1], penetration currentLength - maxLength >= 0, the cable's
\* restitution.
C4_CableContactAsStated ==
    lastOp.name = "cableAddContact" =>
        IF RLt(LinkDistance, link.maxLength)
        THEN retval = 0 /\ contacts = hist.contacts
        ELSE /\ retval = 1
             /\ SlotsWritten = {1}
             /\ CableContactWritten(contacts[1])
             /\ UnitTowardParticle1(contacts[1].contactNormal)

\* C4 amended: as C4, the normal being the unit vector from particle[0]
\* toward particle[1] when the two particles are at different positions; for
\* coincident particles (possible only with maxLength <= 0) no such direction
\* exists and the contact is still written.
C4_CableContact ==
    lastOp.name = "cableAddContact" =>
        IF RLt(LinkDistance, link.maxLength)
        THEN retval = 0 /\ contacts = hist.contacts
        ELSE /\ retval = 1
             /\ SlotsWritten = {1}
             /\ CableContactWritten(contacts[1])
             /\ (RGt(LinkDistance, Zero) =>
                    UnitTowardParticle1(contacts[1].contactNormal))

\* An overextended cable between particles that are not on a common axis has
\* reported its contact.
C4_Witness ==
    /\ lastOp.name = "cableAddContact"
    /\ retval = 1
    /\ RGt(contacts[1].penetration, Zero)
    /\ LinkSeparation[1] # Zero /\ LinkSeparation[2] # Zero

\* C10 as stated: addContact(contact, limit) of a cable or a rod writes at
\* most limit contacts and returns a count <= limit, for every limit >= 0
\* (with limit = 0 it writes nothing and returns 0).
C10_LimitRespectedAsStated ==
    lastOp.name \in {"cableAddContact", "rodAddContact"} =>
        /\ retval <= lastOp.limit
        /\ Cardinality(SlotsWritten) <= lastOp.limit

\* C10 amended: for every limit >= 1 (the links' documented precondition)
\* addContact of a cable or a rod writes at most limit contacts, all of them
\* within the first limit slots, and returns a count <= limit.
C10_LimitRespected ==
    (lastOp.name \in {"cableAddContact", "rodAddContact"} /\ lastOp.limit >= 1)
        => /\ retval <= lastOp.limit
           /\ Cardinality(SlotsWritten) <= lastOp.limit
           /\ SlotsWritten \subseteq 1..lastOp.limit

\* A link whose constraint is violated was asked for its contact with limit 1
\* and wrote one.
C10_Witness ==
    /\ lastOp.name \in {"cableAddContact", "rodAddContact"}
    /\ lastOp.limit = 1
    /\ retval = 1
    /\ SlotsWritten = {1}

\* C17: when the distance between a rod's particles differs from the rod's
\* length, ParticleRod::addContact (given a limit of at least 1, as
\* plinks.h requires) returns 1 and writes one contact with
\* restitution 0 and a positive penetration: stretched, the normal is the
\* unit vector from particle[0] toward particle[1] and the penetration
\* currentLen - length; compressed, the normal is the reverse unit vector
\* and the penetration length - currentLen.
C17_RodContactOffNominal ==
    (/\ lastOp.name = "rodAddContact"
     /\ lastOp.limit >= 1
     /\ LinkDistance # link.length) =>
        /\ retval = 1
        /\ SlotsWritten = {1}
        /\ contacts[1].particle = link.particle
        /\ contacts[1].restitution = Zero
        /\ RGt(contacts[1].penetration, Zero)
        /\ RGt(LinkDistance, link.length) =>
              /\ UnitTowardParticle1(contacts[1].contactNormal)
              /\ contacts[1].penetration = RSub(LinkDistance, link.length)
        /\ RLt(LinkDistance, link.length) =>
              /\ UnitTowardParticle1(VScale(contacts[1].contactNormal, R(-1)))
              /\ contacts[1].penetration = RSub(link.length, LinkDistance)

----------------------------------------------------------------------------
(* Force generators and ParticleForceRegistry (pfgen.cpp) *)

NewGravity(g) == [kind |-> "gravity", gravity |-> g]

\* ParticleGravity::updateForce(particle, duration): the particles after it.
gravityUpdateForce(fg, ps, p, dur) ==
    IF ~hasFiniteMass(ps[p]) THEN ps
    ELSE addForce(ps, p, VScale(fg.gravity, getMass(ps[p])))

\* What a constructor call leaves when one of its assert()s fails.
Aborted == [kind |-> "aborted"]

\* ParticleBungee(other, springConstant, restLength)
NewBungee(other, springConstant, restLength) ==
    [kind |-> "bungee", other |-> other, springConstant |-> springConstant,
     restLength |-> restLength]

\* ParticleBungee::updateForce(particle, duration)
bungeeUpdateForce(fg, ps, p, dur) ==
    LET force == VSub(ps[p].position, ps[fg.other].position)
        length == Magnitude(force)
        magnitude == RMul(RSub(fg.restLength, length), fg.springConstant)
    IN  IF RLe(length, fg.restLength) THEN ps
        ELSE addForce(ps, p, VScale(Normalise(force), RNeg(magnitude)))

\* ParticleBuoyancy(maxDepth, volume, waterHeight, liquidDensity): no
\* parameter is tested.
NewBuoyancy(maxDepth, volume, waterHeight, liquidDensity) ==
    [kind |-> "buoyancy", maxDepth |-> maxDepth, volume |-> volume,
     waterHeight |-> waterHeight, liquidDensity |-> liquidDensity]

\* A buoyancy whose fully-submerged test leaves out the boundary depth.
buoyancyUpdateForce_StrictlyBelow(fg, ps, p, dur) ==
    LET depth == ps[p].position[2]
        full == RMul(fg.liquidDensity, fg.volume)
    IN  IF RGe(depth, RAdd(fg.waterHeight, fg.maxDepth)) THEN ps
        ELSE IF RLt(depth, RSub(fg.waterHeight, fg.maxDepth))
        THEN addForce(ps, p, <<Zero, full, Zero>>)
        ELSE addForce(ps, p,
                 <<Zero,
                   RDiv(RMul(full, RSub(RSub(depth, fg.maxDepth),
                                        fg.waterHeight)),
                        RMul(R(2), fg.maxDepth)),
                   Zero>>)

\* ParticleBuoyancy::updateForce(particle, duration)
buoyancyUpdateForce(fg, ps, p, dur) ==
    LET depth == ps[p].position[2]
        full == RMul(fg.liquidDensity, fg.volume)
    IN  IF RGe(depth, RAdd(fg.waterHeight, fg.maxDepth)) THEN ps
        ELSE IF RLe(depth, RSub(fg.waterHeight, fg.maxDepth))
        THEN addForce(ps, p, <<Zero, full, Zero>>)
        ELSE addForce(ps, p,
                 <<Zero,
                   RDiv(RMul(full, RSub(RSub(depth, fg.maxDepth),
                                        fg.waterHeight)),
                        RMul(R(2), fg.maxDepth)),
                   Zero>>)

\* ParticleLighterThanAir(particleDensity, particleVolume,
\* airDensityAtGround, densityAltitudeSlope, gravity) with its four asserts.
NewLighterThanAir(particleDensity, particleVolume, airDensityAtGround, densityAltitudeSlope, gravity) ==
    IF /\ RGt(particleDensity, Zero)
       /\ RGt(particleVolume, Zero)
       /\ RGt(airDensityAtGround, Zero)
       /\ RLt(densityAltitudeSlope, Zero)
    THEN [kind |-> "lighter", particleDensity |-> particleDensity,
          particleVolume |-> particleVolume,
          airDensityAtGround |-> airDensityAtGround,
          densityAltitudeSlope |-> densityAltitudeSlope,
          gravity |-> gravity]
    ELSE Aborted

\* ParticleLighterThanAir::updateForce(particle, duration)
lighterUpdateForce(fg, ps, p, dur) ==
    LET ps0 == setVelocity(ps, p, VZero)
        force == VScale(VScale(fg.gravity.gravity, R(-1)), getMass(ps[p]))
        currentAirDensity ==
            RAdd(RMul(fg.densityAltitudeSlope, ps[p].position[2]),
                 fg.airDensityAtGround)
        buoyancyComponentY ==
            RMul(RSub(currentAirDensity, fg.particleDensity),
                 fg.particleVolume)
    IN  IF RLe(currentAirDensity, fg.particleDensity)
        THEN addForce(ps0, p, force)
        ELSE addForce(ps0, p, VAdd(force, <<Zero, buoyancyComponentY, Zero>>))

\* Vector3::vectorProduct
vectorProduct(a, b) ==
    <<RSub(RMul(a[2], b[3]), RMul(a[3], b[2])),
      RSub(RMul(a[3], b[1]), RMul(a[1], b[3])),
      RSub(RMul(a[1], b[2]), RMul(a[2], b[1]))>>

\* real_pow(d, 1.5), a rational when d has a rational square root.
RPow15(d) == RMul(d, RSqrt(d))

\* ParticlePointGravity(gravityScalar, gravityPoint)
NewPointGravity(gravityScalar, gravityPoint) ==
    [kind |-> "pointGravity", gravityScalar |-> gravityScalar,
     gravityPoint |-> gravityPoint]

\* A point gravity whose singularity guard reaches out to distance 1.
pointGravityUpdateForce_WideGuard(fg, ps, p, dur) ==
    LET particleToPoint == VSub(fg.gravityPoint, ps[p].position)
        particleToPointDist == Magnitude(particleToPoint)
    IN  IF ~hasFiniteMass(ps[p]) THEN ps
        ELSE IF RLe(particleToPointDist, One)
        THEN setVelocity(ps, p, VZero)
        ELSE addForce(ps, p,
                 VScale(VScale(Normalise(particleToPoint),
                               RMul(fg.gravityScalar, getMass(ps[p]))),
                        RDiv(One, RPow15(particleToPointDist))))

\* ParticlePointGravity::updateForce(particle, duration)
pointGravityUpdateForce(fg, ps, p, dur) ==
    LET particleToPoint == VSub(fg.gravityPoint, ps[p].position)
        particleToPointDist == Magnitude(particleToPoint)
        scaledPointGravity ==
            VScale(VScale(Normalise(particleToPoint),
                          RMul(fg.gravityScalar, getMass(ps[p]))),
                   RDiv(One, RPow15(particleToPointDist)))
    IN  IF ~hasFiniteMass(ps[p]) THEN ps
        ELSE IF RLt(particleToPointDist, Rat(1, 2))
        THEN setVelocity(ps, p, VZero)
        ELSE addForce(ps, p, scaledPointGravity)

\* ParticleUplift(upliftForce, upliftPoint, upliftRadius, maxUpliftHeight,
\*                gravity)
NewUplift(upliftForce, upliftPoint, upliftRadius, maxUpliftHeight, gravity) ==
    [kind |-> "uplift", upliftForce |-> upliftForce,
     upliftPoint |-> upliftPoint, upliftRadius |-> upliftRadius,
     maxUpliftHeight |-> maxUpliftHeight, gravity |-> gravity]

\* An uplift that adds the counter-gravity force at its maximum height
\* without stopping the particle.
upliftUpdateForce_NoStop(fg, ps, p, dur) ==
    LET particlePosition == ps[p].position
        particleToPoint == VSub(fg.upliftPoint, particlePosition)
    IN  IF ~hasFiniteMass(ps[p]) THEN ps
        ELSE IF RGt(Magnitude(particleToPoint), fg.upliftRadius) THEN ps
        ELSE IF RGe(particlePosition[2], fg.maxUpliftHeight)
        THEN addForce(ps, p,
                      VScale(fg.gravity.gravity,
                             RMul(R(-1), getMass(ps[p]))))
        ELSE addForce(ps, p, VScale(fg.upliftForce, getMass(ps[p])))

\* An uplift that does not test the radius of effect.
upliftUpdateForce_AnyDistance(fg, ps, p, dur) ==
    LET particlePosition == ps[p].position
    IN  IF ~hasFiniteMass(ps[p]) THEN ps
        ELSE IF RGe(particlePosition[2], fg.maxUpliftHeight)
        THEN addForce(setVelocity(ps, p, VZero), p,
                      VScale(fg.gravity.gravity,
                             RMul(R(-1), getMass(ps[p]))))
        ELSE addForce(ps, p, VScale(fg.upliftForce, getMass(ps[p])))

\* ParticleUplift::updateForce(particle, duration)
upliftUpdateForce(fg, ps, p, dur) ==
    LET particlePosition == ps[p].position
        particleToPoint == VSub(fg.upliftPoint, particlePosition)
    IN  IF ~hasFiniteMass(ps[p]) THEN ps
        ELSE IF RGt(Magnitude(particleToPoint), fg.upliftRadius) THEN ps
        ELSE IF RGe(particlePosition[2], fg.maxUpliftHeight)
        THEN addForce(setVelocity(ps, p, VZero), p,
                      VScale(fg.gravity.gravity,
                             RMul(R(-1), getMass(ps[p]))))
        ELSE addForce(ps, p, VScale(fg.upliftForce, getMass(ps[p])))

\* ParticleSpring(other, springConstant, restLength)
NewSpring(other, springConstant, restLength) ==
    [kind |-> "spring", other |-> other, springConstant |-> springConstant,
     restLength |-> restLength]

\* A spring that, like a bungee, adds nothing when compressed.
springUpdateForce_OnlyStretched(fg, ps, p, dur) ==
    LET force == VSub(ps[p].position, ps[fg.other].position)
        magnitude == RMul(RSub(Magnitude(force), fg.restLength),
                          fg.springConstant)
    IN  IF RLe(Magnitude(force), fg.restLength) THEN ps
        ELSE addForce(ps, p, VScale(Normalise(force), RNeg(magnitude)))

\* ParticleSpring::updateForce(particle, duration)
springUpdateForce(fg, ps, p, dur) ==
    LET force == VSub(ps[p].position, ps[fg.other].position)
        magnitude == RMul(RSub(Magnitude(force), fg.restLength),
                          fg.springConstant)
    IN  addForce(ps, p, VScale(Normalise(force), RNeg(magnitude)))

\* ParticleAnchoredSpring(anchorPoint, springConstant, restLength)
NewAnchoredSpring(anchorPoint, springConstant, restLength) ==
    [kind |-> "anchoredSpring", anchorPoint |-> anchorPoint,
     springConstant |-> springConstant, restLength |-> restLength]

\* ParticleAnchoredSpring::updateForce(particle, duration)
anchoredSpringUpdateForce(fg, ps, p, dur) ==
    LET force == VSub(ps[p].position, fg.anchorPoint)
        magnitude == RMul(RSub(Magnitude(force), fg.restLength),
                          fg.springConstant)
    IN  addForce(ps, p, VScale(Normalise(force), RNeg(magnitude)))

\* ParticleWheelRoller(wheelCenter, rollForceScalar)
NewWheelRoller(wheelCenter, rollForceScalar) ==
    [kind |-> "wheelRoller", wheelCenter |-> wheelCenter,
     rollForceScalar |-> rollForceScalar]

\* ParticleWheelRoller::updateForce(particle, duration)
wheelRollerUpdateForce(fg, ps, p, dur) ==
    LET spokeVector == VSub(ps[fg.wheelCenter].position, ps[p].position)
        forceVector == Normalise(vectorProduct(spokeVector, Vec(0, 0, 1)))
    IN  IF ~hasFiniteMass(ps[p]) THEN ps
        ELSE addForce(ps, p,
                 VScale(VScale(forceVector, fg.rollForceScalar),
                        getMass(ps[p])))

\* The virtual call fg->updateForce(particle, duration).
updateForce(fg, ps, p, dur) ==
    IF fg.kind = "gravity" THEN gravityUpdateForce(fg, ps, p, dur)
    ELSE IF fg.kind = "pointGravity"
    THEN pointGravityUpdateForce(fg, ps, p, dur)
    ELSE IF fg.kind = "uplift" THEN upliftUpdateForce(fg, ps, p, dur)
    ELSE IF fg.kind = "spring" THEN springUpdateForce(fg, ps, p, dur)
    ELSE IF fg.kind = "anchoredSpring"
    THEN anchoredSpringUpdateForce(fg, ps, p, dur)
    ELSE IF fg.kind = "bungee" THEN bungeeUpdateForce(fg, ps, p, dur)
    ELSE IF fg.kind = "buoyancy" THEN buoyancyUpdateForce(fg, ps, p, dur)
    ELSE IF fg.kind = "lighter" THEN lighterUpdateForce(fg, ps, p, dur)
    ELSE IF fg.kind = "wheelRoller"
    THEN wheelRollerUpdateForce(fg, ps, p, dur)
    ELSE ps

NewRegistration(p, g) == [particle |-> p, fg |-> g]

\* vector::erase at index i
erase(regs, i) == SubSeq(regs, 1, i - 1) \o SubSeq(regs, i + 1, Len(regs))

\* add with the new registration put first instead of last.
registryAdd_AtFront(regs, p, g) == <<NewRegistration(p, g)>> \o regs

\* ParticleForceRegistry::add
registryAdd(regs, p, g) == Append(regs, NewRegistration(p, g))

\* remove without the break: every matching registration is erased.
registryRemove_EveryMatch(regs, p, g) ==
    SelectSeq(regs, LAMBDA r : ~(r.particle = p /\ r.fg = g))

\* The loop of ParticleForceRegistry::remove, from iterator position i on.
RECURSIVE removeLoop(_, _, _, _)
removeLoop(regs, i, p, g) ==
    IF i > Len(regs) THEN regs
    ELSE IF regs[i].particle = p /\ regs[i].fg = g THEN erase(regs, i)
    ELSE removeLoop(regs, i + 1, p, g)

\* ParticleForceRegistry::remove
registryRemove(regs, p, g) == removeLoop(regs, 1, p, g)

\* ParticleForceRegistry::clear
registryClear(regs) == <<>>

\* The loop of ParticleForceRegistry::updateForces, from iterator position i
\* on: the particles after it and the updateForce calls it made, in order.
RECURSIVE updateLoop(_, _, _, _, _, _)
updateLoop(regs, gens, i, ps, dur, calls) ==
    IF i > Len(regs) THEN [ps |-> ps, calls |-> calls]
    ELSE updateLoop(regs, gens, i + 1,
                    updateForce(gens[regs[i].fg], ps, regs[i].particle, dur),
                    dur, Append(calls, regs[i]))

\* ParticleForceRegistry::updateForces
updateForces(regs, gens, ps, dur) == updateLoop(regs, gens, 1, ps, dur, <<>>)

----------------------------------------------------------------------------
(* SpecRegistry: a registry driven by add, remove, clear and updateForces *)

\* Registrations the registry holds at most.
MaxRegs == 3

\* The (particle, generator) pairs the host registers: two generators on one
\* particle, one generator on two particles.
RegPairs == {<<1, 1>>, <<1, 2>>, <<2, 1>>}
NoPair == [particle |-> NULL, fg |-> NULL]

\* hist.calls are the updateForce calls of the updateForces that ran last
\* (empty after any other operation); hist.ref is the reference list;
\* hist.removed the pair of the last remove if no add or clear came after it,
\* and hist.before the registrations that remove found.
InitRegistry ==
    /\ particles = <<NewParticle(Vec(0, 0, 0), VZero, VZero, One),
                     NewParticle(Vec(1, 0, 0), VZero, VZero, Rat(1, 2))>>
    /\ contacts = <<>>
    /\ duration \in Durations
    /\ link = NoLink
    /\ registrations = <<>>
    /\ generators = <<NewGravity(Vec(0, -10, 0)), NewGravity(Vec(1, 0, 0))>>
    /\ world = NoWorld
    /\ resolver = NoResolver
    /\ lastOp = NoOp
    /\ retval = 0
    /\ pre = particles
    /\ hist = [calls |-> <<>>, ref |-> <<>>,
               removed |-> NoPair, before |-> <<>>]

RegistryFrame ==
    /\ pre' = particles
    /\ UNCHANGED <<contacts, duration, link, generators, world, resolver, retval>>

\* The reference list of the registry's contract.
RefAdd(list, p, g) == list \o <<NewRegistration(p, g)>>
RefMatches(list, p, g) ==
    {k \in 1..Len(list) : list[k] = NewRegistration(p, g)}
RefRemove(list, p, g) ==
    IF RefMatches(list, p, g) = {} THEN list
    ELSE LET first == CHOOSE k \in RefMatches(list, p, g) :
                          \A j \in RefMatches(list, p, g) : k <= j
         IN  [k \in 1..(Len(list) - 1) |->
                 IF k < first THEN list[k] ELSE list[k + 1]]

RegistryAdd ==
    /\ Len(registrations) < MaxRegs
    /\ RegistryFrame
    /\ \E pg \in RegPairs :
          /\ registrations' = registryAdd(registrations, pg[1], pg[2])
          /\ hist' = [hist EXCEPT !.ref = RefAdd(@, pg[1], pg[2]),
                                  !.calls = <<>>,
                                  !.removed = NoPair, !.before = <<>>]
    /\ lastOp' = Call("add")
    /\ UNCHANGED particles

RegistryRemove ==
    /\ RegistryFrame
    /\ \E pg \in RegPairs :
          /\ registrations' = registryRemove(registrations, pg[1], pg[2])
          /\ hist' = [hist EXCEPT !.ref = RefRemove(@, pg[1], pg[2]),
                                  !.calls = <<>>,
                                  !.removed = NewRegistration(pg[1], pg[2]),
                                  !.before = registrations]
    /\ lastOp' = Call("remove")
    /\ UNCHANGED particles

RegistryClear ==
    /\ RegistryFrame
    /\ registrations' = registryClear(registrations)
    /\ lastOp' = Call("clear")
    /\ hist' = [hist EXCEPT !.ref = <<>>, !.calls = <<>>,
                            !.removed = NoPair, !.before = <<>>]
    /\ UNCHANGED particles

\* Particle::clearAccumulator on every particle, as the host does at the
\* start of a frame.
clearAccumulators(ps) == [i \in DOMAIN ps |-> [ps[i] EXCEPT !.forceAccum = VZero]]

RegistryClearAccumulators ==
    /\ \E i \in DOMAIN particles : particles[i].forceAccum # VZero
    /\ RegistryFrame
    /\ particles' = clearAccumulators(particles)
    /\ lastOp' = Call("clearAccumulator")
    /\ hist' = [hist EXCEPT !.calls = <<>>]
    /\ UNCHANGED registrations

\* The forces of a frame are applied to cleared accumulators.
RegistryUpdateForces ==
    /\ \A i \in DOMAIN particles : particles[i].forceAccum = VZero
    /\ RegistryFrame
    /\ LET r == updateForces(registrations, generators, particles, duration)
       IN  /\ particles' = r.ps
           /\ hist' = [hist EXCEPT !.calls = r.calls]
    /\ lastOp' = Call("updateForces")
    /\ UNCHANGED registrations

NextRegistry ==
    \/ RegistryAdd
    \/ RegistryRemove
    \/ RegistryClear
    \/ RegistryClearAccumulators
    \/ RegistryUpdateForces

SpecRegistry == InitRegistry /\ [][NextRegistry]_vars

\* The force the generators of list[k..] registered on particle i add up to.
RECURSIVE RefForce(_, _, _)
RefForce(list, i, k) ==
    IF k > Len(list) THEN VZero
    ELSE VAdd(IF list[k].particle = i
              THEN VScale(generators[list[k].fg].gravity, getMass(particles[i]))
              ELSE VZero,
              RefForce(list, i, k + 1))

Count(seq, x) == Cardinality({k \in 1..Len(seq) : seq[k] = x})
Others(seq, x) == SelectSeq(seq, LAMBDA r : r # x)

\* C5 as stated: after remove(p, g), an updateForces call does not invoke g
\* on p at all, whatever adds came before (the pair registered more than once
\* included), and invokes every other registration as before.
C5_RemovedPairNeverInvoked ==
    (lastOp.name = "updateForces" /\ hist.removed # NoPair) =>
        /\ Count(hist.calls, hist.removed) = 0
        /\ Others(hist.calls, hist.removed) = Others(hist.before, hist.removed)

\* C5 amended: after remove(p, g), an updateForces call invokes g on p once
\* less often than the registrations before the remove would have (not at all
\* when (p, g) was registered at most once), and invokes every other
\* registration as before, in the same order.
C5_RemoveDropsOneRegistration ==
    (lastOp.name = "updateForces" /\ hist.removed # NoPair) =>
        /\ Count(hist.calls, hist.removed) =
              (IF Count(hist.before, hist.removed) = 0 THEN 0
               ELSE Count(hist.before, hist.removed) - 1)
        /\ Others(hist.calls, hist.removed) = Others(hist.before, hist.removed)

\* updateForces ran after a remove of a pair that was registered twice, next
\* to another registration.
C5_Witness ==
    /\ lastOp.name = "updateForces"
    /\ hist.removed # NoPair
    /\ Count(hist.before, hist.removed) = 2
    /\ Len(Others(hist.before, hist.removed)) >= 1

\* C6: after any sequence of add, remove and clear the registry equals the
\* reference list (add appends, remove deletes the first match only, clear
\* empties), and updateForces invokes each entry once, in list order, and
\* leaves the list as it was.
C6_RegistryIsReferenceList ==
    /\ registrations = hist.ref
    /\ lastOp.name = "updateForces" =>
          /\ hist.calls = hist.ref
          /\ \A i \in DOMAIN particles :
                particles[i].forceAccum = RefForce(hist.ref, i, 1)

\* updateForces ran over a list of two entries left by removing the first of
\* two equal registrations.
C6_Witness ==
    /\ lastOp.name = "updateForces"
    /\ Len(hist.calls) = 2
    /\ hist.removed # NoPair
    /\ Count(hist.before, hist.removed) = 2

----------------------------------------------------------------------------
(* ParticleWorld (pworld.cpp) *)

NewWorld(maxContacts, gens) ==
    [maxContacts |-> maxContacts, contactGenerators |-> gens]

\* ParticleWorld::generateContacts: the count returned, the contact buffer
\* after the call and the addContact calls made.  The body sets its locals
\* limit and nextContact and returns 0: no generator is called and nothing
\* is written.
generateContacts(w, ps, buf) ==
    LET limit == w.maxContacts
        nextContact == 1
    IN  [n |-> 0, buf |-> buf, calls |-> <<>>]

\* ParticleWorld::integrate: the particles after the call.  The body is
\* empty.
worldIntegrate(w, ps, dur) == ps

\* ParticleWorld::runPhysics: the particles and the contact buffer after the
\* call, the steps of the tick it performed, in order, and the number of
\* contacts it generated.  The body is empty.
runPhysics(w, regs, gens, ps, buf, dur) ==
    [ps |-> ps, buf |-> buf, steps |-> <<>>, generated |-> 0]

----------------------------------------------------------------------------
(* SpecWorld: a world set up by the host, then ticked *)

\* The size of the contact buffer is 0..MaxContacts; the world has up to
\* MaxGenerators contact generators.
MaxContacts == 2
MaxGenerators == 2

WorldLinks == {NewRod(1, 2, One), NewCable(1, 2, One, Zero)}
GeneratorLists ==
    UNION {[1..n -> WorldLinks] : n \in 0..MaxGenerators}

\* Particle 1 has mass 1 and is 1 or 2 units from the immovable particle 2;
\* gravity acts on it through the force registry or not at all.
InitWorld ==
    /\ \E x \in {Vec(1, 0, 0), Vec(2, 0, 0)}, v \in {VZero, Vec(1, 0, 0)} :
          particles = <<NewParticle(x, v, VZero, One),
                        NewParticle(Vec(0, 0, 0), VZero, VZero, Zero)>>
    /\ \E m \in 0..MaxContacts, gl \in GeneratorLists :
          /\ world = NewWorld(m, gl)
          /\ contacts = [k \in 1..m |-> BlankContact]
    /\ resolver = NoResolver
    /\ duration \in Durations
    /\ link = NoLink
    /\ generators = <<NewGravity(Vec(0, -10, 0))>>
    /\ registrations \in {<<>>, <<NewRegistration(1, 1)>>}
    /\ lastOp = NoOp
    /\ retval = 0
    /\ pre = particles
    /\ hist = [steps |-> <<>>, calls |-> <<>>, generated |-> 0,
               contacts |-> contacts]

WorldFrame ==
    /\ pre' = particles
    /\ UNCHANGED <<duration, link, registrations, generators, world, resolver>>

WorldGenerateContacts ==
    /\ WorldFrame
    /\ lastOp' = Call("generateContacts")
    /\ LET r == generateContacts(world, particles, contacts)
       IN  /\ retval' = r.n
           /\ contacts' = r.buf
           /\ hist' = [steps |-> <<>>, calls |-> r.calls, generated |-> r.n,
                       contacts |-> contacts]
    /\ UNCHANGED particles

WorldIntegrate ==
    /\ WorldFrame
    /\ lastOp' = Call("integrate")
    /\ particles' = worldIntegrate(world, particles, duration)
    /\ hist' = [steps |-> <<>>, calls |-> <<>>, generated |-> 0,
                contacts |-> contacts]
    /\ UNCHANGED <<contacts, retval>>

WorldRunPhysics ==
    /\ WorldFrame
    /\ lastOp' = Call("runPhysics")
    /\ LET r == runPhysics(world, registrations, generators, particles,
                           contacts, duration)
       IN  /\ particles' = r.ps
           /\ contacts' = r.buf
           /\ hist' = [steps |-> r.steps, calls |-> <<>>,
                       generated |-> r.generated, contacts |-> contacts]
    /\ UNCHANGED retval

NextWorld ==
    \/ WorldGenerateContacts
    \/ WorldIntegrate
    \/ WorldRunPhysics

SpecWorld == InitWorld /\ [][NextWorld]_vars

Range(seq) == {seq[k] : k \in 1..Len(seq)}

\* The rod scenario: particle 1 (mass 1) exactly 1 unit from the immovable
\* particle 2, one rod of length 1 between them as the world's contact
\* generator, room for a contact, gravity registered on particle 1.
RodScenario(ps) ==
    /\ ps[1].inverseMass = One /\ ps[2].inverseMass = Zero
    /\ Magnitude(VSub(ps[1].position, ps[2].position)) = One
    /\ world.contactGenerators = <<NewRod(1, 2, One)>>
    /\ world.maxContacts >= 1
    /\ registrations = <<NewRegistration(1, 1)>>

\* C7: in the rod scenario, after one runPhysics the two particles are 1 unit
\* apart again, the tick having advanced particle 1 under gravity (its
\* velocity changed), asked the rod for its contact and resolved the contacts
\* that were generated.
C7_RodScenarioTick ==
    (lastOp.name = "runPhysics" /\ RodScenario(pre)) =>
        /\ Magnitude(VSub(particles[1].position, particles[2].position)) = One
        /\ particles[1].velocity # pre[1].velocity
        /\ "generateContacts" \in Range(hist.steps)
        /\ hist.generated >= 1 => "resolveContacts" \in Range(hist.steps)

\* C8: runPhysics performs updateForces, integrate, generateContacts, in that
\* order, and then resolveContacts exactly when generateContacts returned a
\* non-zero count.
C8_TickOrder ==
    lastOp.name = "runPhysics" =>
        hist.steps = <<"updateForces", "integrate", "generateContacts">>
                     \o (IF hist.generated # 0 THEN <<"resolveContacts">>
                         ELSE <<>>)

\* The addContact calls generateContacts is to make from generator k on, with
\* `limit` slots unused and `at` the next free slot, and their total count.
RECURSIVE RefGenerate(_, _, _, _, _)
RefGenerate(gl, k, limit, at, ps) ==
    IF k > Len(gl) \/ limit <= 0 THEN [n |-> 0, calls |-> <<>>]
    ELSE LET used == addContact(gl[k], ps, [j \in 1..(at + limit - 1) |-> BlankContact],
                                at, limit).n
             rest == RefGenerate(gl, k + 1, limit - used, at + used, ps)
         IN  [n |-> used + rest.n,
              calls |-> <<[generator |-> k, limit |-> limit, at |-> at]>>
                        \o rest.calls]

\* C9: generateContacts calls each registered contact generator once, in
\* registration order, with the capacity still unused as limit and the next
\* free slot, until the capacity is 0, and returns the sum of the generators'
\* counts, which is at most maxContacts.
C9_GenerateContacts ==
    lastOp.name = "generateContacts" =>
        LET ref == RefGenerate(world.contactGenerators, 1, world.maxContacts,
                               1, particles)
        IN  /\ hist.calls = ref.calls
            /\ retval = ref.n
            /\ retval <= world.maxContacts

----------------------------------------------------------------------------
(* Particle::integrate and ParticleWorld::startFrame *)

\* a^n for a whole n >= 0.
RECURSIVE PowInt(_, _)
PowInt(a, n) == IF n = 0 THEN One ELSE RMul(a, PowInt(a, n - 1))

\* real_pow(a, d) is a rational for a whole d >= 0 and for a = 1; the
\* model calls it on such arguments only.
HasPow(a, d) == a = One \/ (d[2] = 1 /\ d[1] >= 0)
RPow(a, d) == IF a = One THEN One ELSE PowInt(a, d[1])

\* An integrate that leaves the accumulated force in place.
integrate_KeepsForce(p, dur) ==
    LET position == VAdd(p.position, VScale(p.velocity, dur))
        resultingAcc == VAdd(p.acceleration,
                             VScale(p.forceAccum, p.inverseMass))
        velocity == VScale(VAdd(p.velocity, VScale(resultingAcc, dur)),
                           RPow(p.damping, dur))
    IN  IF RLe(dur, Zero) THEN p
        ELSE [p EXCEPT !.position = position, !.velocity = velocity]

\* Particle::integrate: the particle after the call.
integrate(p, dur) ==
    LET position == VAdd(p.position, VScale(p.velocity, dur))
        resultingAcc == VAdd(p.acceleration,
                             VScale(p.forceAccum, p.inverseMass))
        velocity == VScale(VAdd(p.velocity, VScale(resultingAcc, dur)),
                           RPow(p.damping, dur))
    IN  IF RLe(dur, Zero) THEN p
        ELSE [p EXCEPT !.position = position,
                       !.velocity = velocity,
                       !.forceAccum = VZero]

\* ParticleWorld::startFrame: every tracked particle's accumulator cleared.
startFrame(w, ps) == clearAccumulators(ps)

----------------------------------------------------------------------------
(* SpecParticle: forces added to particles, which are then integrated *)

\* How many operations one behaviour performs on the particles.
MaxParticleOps == 3

Dampings == {One, Rat(1, 2)}
IntegrateDurations == {Zero, One, R(2)}
Forces == {Vec(2, -1, 0)}

InitParticle ==
    /\ \E v \in {VZero, Vec(1, 0, 0)}, a \in Accelerations,
          im \in {Zero, One}, d \in Dampings :
          particles = <<[NewParticle(Vec(0, 0, 0), v, a, im)
                             EXCEPT !.damping = d],
                        NewParticle(Vec(1, 0, 0), Vec(0, 1, 0), VZero,
                                    Rat(1, 2))>>
    /\ contacts = <<>>
    /\ duration = Zero
    /\ link = NoLink
    /\ registrations = <<>>
    /\ generators = <<>>
    /\ world = NoWorld
    /\ resolver = NoResolver
    /\ lastOp = NoOp
    /\ retval = 0
    /\ pre = particles
    /\ hist = [ops |-> 0, added |-> <<VZero, VZero>>,
               consumed |-> <<VZero, VZero>>]

ParticleFrame ==
    /\ hist.ops < MaxParticleOps
    /\ pre' = particles
    /\ UNCHANGED <<contacts, link, registrations, generators, world,
                   resolver, retval>>

\* particle->addForce(f); hist.added sums the forces added to each particle
\* since its accumulator was last cleared.
ParticleAddForce ==
    /\ ParticleFrame
    /\ \E i \in DOMAIN particles, f \in Forces :
          /\ particles' = addForce(particles, i, f)
          /\ lastOp' = [name |-> "addForce", p |-> i]
          /\ hist' = [hist EXCEPT !.ops = @ + 1,
                                  !.added[i] = VAdd(@, f)]
    /\ UNCHANGED duration

\* particle->integrate(d); hist.consumed keeps the forces added before it.
ParticleIntegrate ==
    /\ ParticleFrame
    /\ \E i \in DOMAIN particles, d \in IntegrateDurations :
          /\ HasPow(particles[i].damping, d)
          /\ particles' = [particles EXCEPT ![i] = integrate(@, d)]
          /\ duration' = d
          /\ lastOp' = [name |-> "integrate", p |-> i]
          /\ hist' = [hist EXCEPT
                 !.ops = @ + 1,
                 !.consumed = hist.added,
                 !.added[i] = IF RGt(d, Zero) THEN VZero ELSE @]

ParticleStartFrame ==
    /\ ParticleFrame
    /\ particles' = startFrame(world, particles)
    /\ lastOp' = [name |-> "startFrame", p |-> NULL]
    /\ hist' = [hist EXCEPT !.ops = @ + 1,
                            !.consumed = hist.added,
                            !.added = <<VZero, VZero>>]
    /\ UNCHANGED duration

\* world.integrate(d)
ParticleWorldIntegrate ==
    /\ ParticleFrame
    /\ \E d \in IntegrateDurations \ {Zero} :
          /\ particles' = worldIntegrate(world, particles, d)
          /\ duration' = d
    /\ lastOp' = [name |-> "worldIntegrate", p |-> NULL]
    /\ hist' = [hist EXCEPT !.ops = @ + 1, !.consumed = hist.added]

NextParticle ==
    \/ ParticleAddForce
    \/ ParticleIntegrate
    \/ ParticleStartFrame
    \/ ParticleWorldIntegrate

SpecParticle == InitParticle /\ [][NextParticle]_vars

\* C11: a particle with inverseMass == 0 has the position and the velocity
\* it had before, after Particle::integrate on it (any duration, force,
\* acceleration, velocity) and after the world's integrate.
C11_ImmovableParticleUnmoved ==
    /\ lastOp.name = "integrate" =>
          (~ hasFiniteMass(pre[lastOp.p]) =>
              /\ particles[lastOp.p].position = pre[lastOp.p].position
              /\ particles[lastOp.p].velocity = pre[lastOp.p].velocity)
    /\ lastOp.name = "worldIntegrate" =>
          \A i \in DOMAIN particles :
              ~ hasFiniteMass(pre[i]) =>
                  /\ particles[i].position = pre[i].position
                  /\ particles[i].velocity = pre[i].velocity

\* C15: right after startFrame every tracked particle's forceAccum is the
\* zero vector; right after integrate with a positive duration the
\* particle's forceAccum is the zero vector, and the velocity it got is the
\* one the forces added since its accumulator was last cleared give: a force
\* added for an earlier tick contributes nothing.
C15_ForceAccumLifecycle ==
    /\ lastOp.name = "startFrame" =>
          \A i \in DOMAIN particles : particles[i].forceAccum = VZero
    /\ (lastOp.name = "integrate" /\ RGt(duration, Zero)) =>
          LET i == lastOp.p
              was == pre[i]
              acc == VAdd(was.acceleration,
                          VScale(hist.consumed[i], was.inverseMass))
          IN  /\ particles[i].forceAccum = VZero
              /\ particles[i].velocity =
                     VScale(VAdd(was.velocity, VScale(acc, duration)),
                            RPow(was.damping, duration))

\* Particle 2 (inverse mass 1/2, velocity (0,1,0)) had the force (2,-1,0)
\* added and was integrated over 1 s, which made its velocity (1,1/2,0); a
\* second integrate, with no force added since, leaves that velocity.
C15_Witness ==
    /\ lastOp.name = "integrate"
    /\ lastOp.p = 2
    /\ RGt(duration, Zero)
    /\ hist.ops = 3
    /\ hist.consumed[2] = VZero
    /\ pre[2].velocity = <<One, Rat(1, 2), Zero>>
    /\ particles[2].velocity = pre[2].velocity

----------------------------------------------------------------------------
(* ParticleContactResolver *)

NewResolver(iterations) == [iterations |-> iterations, iterationsUsed |-> 0]

\* The scan of one iteration: the index of the contact with the most negative
\* separating velocity among contactArray[0..numContacts-1], the first such
\* in array order; NULL when no contact has a negative separating velocity.
RECURSIVE scanContacts(_, _, _, _, _, _)
scanContacts(cs, numContacts, ps, i, max, maxIndex) ==
    IF i > numContacts THEN maxIndex
    ELSE LET sepVel == calculateSeparatingVelocity(cs[i], ps)
         IN  IF RLt(sepVel, max)
             THEN scanContacts(cs, numContacts, ps, i + 1, sepVel, i)
             ELSE scanContacts(cs, numContacts, ps, i + 1, max, maxIndex)

\* A loop that tests the budget after the resolution instead of before it.
resolveContactsIteration_TestAfter(res, cs, numContacts, ps, dur) ==
    LET maxIndex == scanContacts(cs, numContacts, ps, 1, Zero, NULL)
        r == resolve(cs[maxIndex], ps, dur)
    IN  IF res.iterationsUsed > res.iterations
        THEN [res |-> res, cs |-> cs, ps |-> ps,
              outcome |-> "exhausted", index |-> NULL]
        ELSE IF maxIndex = NULL
        THEN [res |-> res, cs |-> cs, ps |-> ps,
              outcome |-> "break", index |-> NULL]
        ELSE [res |-> [res EXCEPT !.iterationsUsed = @ + 1],
              cs |-> [cs EXCEPT ![maxIndex] = r.c], ps |-> r.ps,
              outcome |-> "resolved", index |-> maxIndex]

\* One pass through the loop of resolveContacts: the loop test, the scan,
\* the early stop and the resolution of the selected contact.
resolveContactsIteration(res, cs, numContacts, ps, dur) ==
    LET maxIndex == scanContacts(cs, numContacts, ps, 1, Zero, NULL)
        r == resolve(cs[maxIndex], ps, dur)
    IN  IF res.iterationsUsed >= res.iterations
        THEN [res |-> res, cs |-> cs, ps |-> ps,
              outcome |-> "exhausted", index |-> NULL]
        ELSE IF maxIndex = NULL
        THEN [res |-> res, cs |-> cs, ps |-> ps,
              outcome |-> "break", index |-> NULL]
        ELSE [res |-> [res EXCEPT !.iterationsUsed = @ + 1],
              cs |-> [cs EXCEPT ![maxIndex] = r.c], ps |-> r.ps,
              outcome |-> "resolved", index |-> maxIndex]

----------------------------------------------------------------------------
(* SpecResolver: resolveContacts on an array of contacts among three      *)
(* particles, one loop iteration per step                                  *)

\* The largest iteration budget and the number of resolveContacts calls of
\* one behaviour.
MaxIterations == 2
MaxCalls == 2

\* No correction applied yet to any of n contacts.
RECURSIVE NoCorrection(_)
NoCorrection(n) == IF n = 0 THEN <<>> ELSE Append(NoCorrection(n - 1), Zero)

LineVelocities == {Vec(-1, 0, 0), Vec(1, 0, 0), Vec(2, 0, 0)}

\* Contacts along the x axis between neighbours of the three particles.
ContactArrays ==
    {<<NewContact(1, 2, rest, Vec(-1, 0, 0), pen),
       NewContact(2, 3, Zero, Vec(-1, 0, 0), Zero)>> :
         rest \in Restitutions, pen \in Penetrations}
    \cup {<<NewContact(3, NULL, Zero, Vec(1, 0, 0), One)>>}

InitResolver ==
    /\ \E v1 \in LineVelocities, v2 \in LineVelocities, v3 \in LineVelocities,
          im1 \in {Zero, One} :
          particles = <<NewParticle(Vec(0, 0, 0), v1, VZero, im1),
                        NewParticle(Vec(1, 0, 0), v2, VZero, One),
                        NewParticle(Vec(2, 0, 0), v3, VZero, Rat(1, 2))>>
    /\ contacts \in ContactArrays
    /\ \E n \in 0..MaxIterations : resolver = NewResolver(n)
    /\ duration \in Durations
    /\ link = NoLink
    /\ registrations = <<>>
    /\ generators = <<>>
    /\ world = NoWorld
    /\ lastOp = NoOp
    /\ retval = 0
    /\ pre = particles
    /\ hist = [calls |-> 0, pc |-> "idle", numContacts |-> 0,
               resolved |-> <<>>, before |-> contacts, usedBefore |-> 0,
               usedAtEntry |-> 0,
               corrected |-> NoCorrection(Len(contacts))]

\* The position correction one resolution applies to the particles of
\* contact c along its normal: the sum over its particles of the size of the
\* displacement along the normal.
CorrectionAlongNormal(c, before, after) ==
    LET along(p) ==
            IF p = NULL THEN Zero
            ELSE LET d == Dot(VSub(after[p].position, before[p].position),
                              c.contactNormal)
                 IN  IF RLt(d, Zero) THEN RNeg(d) ELSE d
    IN  RAdd(along(c.particle[1]), along(c.particle[2]))

ResolverFrame ==
    /\ pre' = particles
    /\ UNCHANGED <<duration, link, registrations, generators, world, retval>>

\* Entry of resolveContacts(contactArray, numContacts, duration).
ResolverBegin ==
    /\ ResolverFrame
    /\ hist.pc # "running"
    /\ hist.calls < MaxCalls
    /\ \E n \in 0..Len(contacts) :
          /\ lastOp' = [name |-> "resolveContacts", outcome |-> "entered",
                        index |-> NULL]
          /\ hist' = [calls |-> hist.calls + 1, pc |-> "running",
                      numContacts |-> n, resolved |-> <<>>,
                      before |-> contacts,
                      usedBefore |-> resolver.iterationsUsed,
                      usedAtEntry |-> resolver.iterationsUsed,
                      corrected |-> NoCorrection(Len(contacts))]
    /\ resolver' = [resolver EXCEPT !.iterationsUsed = 0]
    /\ UNCHANGED <<particles, contacts>>

\* One pass through the loop; the call returns when the pass does not
\* resolve a contact.
ResolverIterate ==
    /\ ResolverFrame
    /\ hist.pc = "running"
    /\ LET r == resolveContactsIteration(resolver, contacts, hist.numContacts,
                                         particles, duration)
       IN  /\ resolver' = r.res
           /\ contacts' = r.cs
           /\ particles' = r.ps
           /\ lastOp' = [name |-> "iteration", outcome |-> r.outcome,
                         index |-> r.index]
           /\ hist' = [hist EXCEPT
                  !.pc = IF r.outcome = "resolved" THEN "running" ELSE "done",
                  !.resolved = IF r.outcome = "resolved"
                               THEN Append(@, r.index) ELSE @,
                  !.before = contacts,
                  !.usedBefore = resolver.iterationsUsed,
                  !.corrected =
                      IF lastOp'.outcome = "resolved"
                      THEN [@ EXCEPT ![lastOp'.index] =
                               RAdd(@, CorrectionAlongNormal(
                                           contacts[lastOp'.index],
                                           particles, particles'))]
                      ELSE @]

NextResolver ==
    \/ ResolverBegin
    \/ ResolverIterate

SpecResolver == InitResolver /\ [][NextResolver]_vars

\* C12: resolveContacts terminates: every pass through its loop either
\* returns or adds one to iterationsUsed, which never exceeds `iterations`.
\* So a call resolves at most `iterations` contacts, and iterationsUsed is
\* the number of resolutions of the current call: between 0 and iterations,
\* counted from 0 in each call, and 0 on return when iterations or
\* numContacts is 0.
C12_IterationsUsedInBudget ==
    /\ resolver.iterationsUsed >= 0
    /\ resolver.iterationsUsed <= resolver.iterations
    /\ hist.pc # "idle" => resolver.iterationsUsed = Len(hist.resolved)
    /\ lastOp.name = "resolveContacts" => resolver.iterationsUsed = 0
    /\ lastOp.name = "iteration" =>
          \/ hist.pc = "done" /\ resolver.iterationsUsed = hist.usedBefore
          \/ /\ hist.pc = "running"
             /\ resolver.iterationsUsed = hist.usedBefore + 1
    /\ (hist.pc = "done" /\ (resolver.iterations = 0 \/ hist.numContacts = 0))
           => resolver.iterationsUsed = 0

\* A second call that returns after one resolution, the call before it
\* having used two.
C12_Witness ==
    /\ hist.calls = 2
    /\ hist.pc = "done"
    /\ hist.usedAtEntry = 2
    /\ resolver.iterationsUsed = 1

\* The separating velocity contact j of the array had when the last loop
\* pass began: the relative velocity of its particles along its normal.
ClosingAtStart(j) ==
    LET c == hist.before[j]
        v0 == pre[c.particle[1]].velocity
        v1 == IF c.particle[2] = NULL THEN VZero
              ELSE pre[c.particle[2]].velocity
    IN  Dot(VSub(v0, v1), c.contactNormal)

\* C19: a loop pass of resolveContacts within the budget resolves exactly one
\* contact, one whose separating velocity at the start of the pass is
\* negative and the least of the array, and changes nothing else; when no
\* contact has a negative separating velocity the pass resolves nothing and
\* the call returns with budget left.
C19_WorstContactResolvedPerIteration ==
    (lastOp.name = "iteration" /\ lastOp.outcome # "exhausted") =>
        LET violating == {j \in 1..hist.numContacts :
                              RLt(ClosingAtStart(j), Zero)}
            k == lastOp.index
        IN  /\ lastOp.outcome = "break" <=> violating = {}
            /\ lastOp.outcome = "break" =>
                  /\ particles = pre
                  /\ contacts = hist.before
                  /\ hist.pc = "done"
                  /\ resolver.iterationsUsed < resolver.iterations
            /\ lastOp.outcome = "resolved" =>
                  /\ k \in violating
                  /\ \A j \in 1..hist.numContacts :
                        RLe(ClosingAtStart(k), ClosingAtStart(j))
                  /\ \A j \in DOMAIN contacts \ {k} :
                        contacts[j] = hist.before[j]
                  /\ \A i \in DOMAIN particles \ Range(hist.before[k].particle) :
                        particles[i] = pre[i]
                  /\ particles = resolve(hist.before[k], pre, duration).ps
                  /\ resolver.iterationsUsed = hist.usedBefore + 1

\* The second contact of the array is resolved although the first one is
\* closing too, less fast.
C19_Witness ==
    /\ lastOp.name = "iteration"
    /\ lastOp.outcome = "resolved"
    /\ lastOp.index = 2
    /\ hist.numContacts = 2
    /\ RLt(ClosingAtStart(1), Zero)
    /\ RLt(ClosingAtStart(2), ClosingAtStart(1))

----------------------------------------------------------------------------
(* SpecChain: a chain of particles joined by rods, one particle displaced, *)
(* one pass of contact generation and one resolveContacts call            *)

\* One pass of contact generation: every link in turn writes its contacts
\* at the next free slot of the buffer, while capacity is left.
RECURSIVE generatePass(_, _, _, _, _, _)
generatePass(gl, k, ps, buf, at, limit) ==
    IF k > Len(gl) \/ limit <= 0 THEN [n |-> 0, buf |-> buf]
    ELSE LET r == addContact(gl[k], ps, buf, at, limit)
             rest == generatePass(gl, k + 1, ps, r.buf, at + r.n, limit - r.n)
         IN  [n |-> r.n + rest.n, buf |-> rest.buf]

\* The chain with every rod at its nominal length len, along the x axis.
ChainAtRest(len, im1) ==
    <<NewParticle(Vec(0, 0, 0), VZero, VZero, im1),
      NewParticle(<<len, Zero, Zero>>, VZero, VZero, One),
      NewParticle(<<RMul(R(2), len), Zero, Zero>>, VZero, VZero, One)>>

ChainRods(len) == <<NewRod(1, 2, len), NewRod(2, 3, len)>>

Displacements ==
    {Vec(1, 0, 0), Vec(-1, 0, 0), Vec(2, 0, 0), Vec(0, 4, 0), Vec(0, -4, 0)}

\* Sum over the rods of |currentLength - length|.
RECURSIVE RodDeviation(_, _, _)
RodDeviation(gl, k, ps) ==
    IF k > Len(gl) THEN Zero
    ELSE LET d == RSub(currentLength(gl[k], ps), gl[k].length)
         IN  RAdd(IF RLt(d, Zero) THEN RNeg(d) ELSE d,
                  RodDeviation(gl, k + 1, ps))

Measurable(gl, ps) ==
    \A k \in DOMAIN gl :
        HasRoot(SquareMagnitude(VSub(ps[gl[k].particle[1]].position,
                                     ps[gl[k].particle[2]].position)))

InitChain ==
    /\ \E len \in {One, R(3)}, im1 \in {Zero, One}, i \in 1..3,
          d \in Displacements :
          /\ particles = [ChainAtRest(len, im1) EXCEPT
                              ![i].position = VAdd(@, d)]
          /\ world = NewWorld(2, ChainRods(len))
          /\ Measurable(ChainRods(len), particles)
    /\ contacts = <<BlankContact, BlankContact>>
    /\ \E extra \in 0..1 :
          resolver = NewResolver(2 * Len(world.contactGenerators) + extra)
    /\ duration \in Durations
    /\ link = NoLink
    /\ registrations = <<>>
    /\ generators = <<>>
    /\ lastOp = NoOp
    /\ retval = 0
    /\ pre = particles
    /\ hist = [calls |-> 0, pc |-> "idle", numContacts |-> 0,
               resolved |-> <<>>, before |-> contacts, usedBefore |-> 0,
               usedAtEntry |-> 0,
               corrected |-> NoCorrection(Len(contacts))]

\* The pass of contact generation over the rods of the chain.
ChainGenerateContacts ==
    /\ lastOp = NoOp
    /\ LET r == generatePass(world.contactGenerators, 1, particles, contacts,
                             1, world.maxContacts)
       IN  /\ contacts' = r.buf
           /\ retval' = r.n
    /\ lastOp' = [name |-> "generateContacts", outcome |-> "returned",
                  index |-> NULL]
    /\ UNCHANGED <<particles, resolver, hist, pre, duration, link,
                   registrations, generators, world>>

\* resolveContacts(contacts, <the count generated>, duration) is entered.
ChainResolveContacts ==
    /\ lastOp.name = "generateContacts"
    /\ lastOp' = [name |-> "resolveContacts", outcome |-> "entered",
                  index |-> NULL]
    /\ hist' = [calls |-> hist.calls + 1, pc |-> "running",
                numContacts |-> retval, resolved |-> <<>>,
                before |-> contacts,
                usedBefore |-> resolver.iterationsUsed,
                usedAtEntry |-> resolver.iterationsUsed,
                corrected |-> NoCorrection(Len(contacts))]
    /\ resolver' = [resolver EXCEPT !.iterationsUsed = 0]
    /\ UNCHANGED <<particles, contacts, pre, retval, duration, link,
                   registrations, generators, world>>

NextChain ==
    \/ ChainGenerateContacts
    \/ ChainResolveContacts
    \/ ResolverIterate

SpecChain == InitChain /\ [][NextChain]_vars

Epsilon == Rat(1, 1000)

----------------------------------------------------------------------------
(* SpecForces: a force generator is constructed and asked once for its    *)
(* force on particle 1; particle 2 is the other end of a bungee            *)

Heights == {R(-2), R(-1), Zero, One, R(2)}

InitForces ==
    /\ \E y \in Heights, im \in {Zero, One, Rat(1, 2)} :
          particles = <<NewParticle(<<Zero, y, Zero>>, Vec(1, 0, 0), VZero, im),
                        NewParticle(Vec(0, 0, 0), VZero, VZero, Zero)>>
    /\ contacts = <<>>
    /\ duration \in Durations
    /\ link = NoLink
    /\ registrations = <<>>
    /\ generators = <<>>
    /\ world = NoWorld
    /\ resolver = NoResolver
    /\ lastOp = NoOp
    /\ retval = 0
    /\ pre = particles
    /\ hist = [ops |-> 0]

ForcesFrame ==
    /\ pre' = particles
    /\ hist' = [ops |-> hist.ops + 1]
    /\ UNCHANGED <<contacts, duration, link, registrations, world, resolver,
                   retval>>

\* new ParticleBuoyancy(maxDepth, volume, waterHeight, liquidDensity)
ForcesConstructBuoyancy ==
    /\ ForcesFrame
    /\ lastOp = NoOp
    /\ \E maxDepth \in {Zero, One, R(2)}, volume \in {Zero, R(2)},
          waterHeight \in {Zero, One}, liquidDensity \in {R(-1), R(3)} :
          /\ generators' = <<NewBuoyancy(maxDepth, volume, waterHeight,
                                         liquidDensity)>>
          /\ lastOp' = [name |-> "construct", kind |-> "buoyancy",
                        densities |-> {liquidDensity}, volume |-> volume]
    /\ UNCHANGED particles

\* new ParticleLighterThanAir(particleDensity, particleVolume,
\*                            airDensityAtGround, densityAltitudeSlope, g)
ForcesConstructLighterThanAir ==
    /\ ForcesFrame
    /\ lastOp = NoOp
    /\ \E particleDensity \in {Zero, One}, particleVolume \in {R(-1), One},
          airDensityAtGround \in {Zero, R(3)},
          densityAltitudeSlope \in {R(-1), Zero} :
          /\ generators' = <<NewLighterThanAir(particleDensity, particleVolume,
                                 airDensityAtGround, densityAltitudeSlope,
                                 NewGravity(Vec(0, -10, 0)))>>
          /\ lastOp' = [name |-> "construct", kind |-> "lighter",
                        densities |-> {particleDensity, airDensityAtGround},
                        volume |-> particleVolume]
    /\ UNCHANGED particles

\* new ParticleBungee(other, springConstant, restLength)
ForcesConstructBungee ==
    /\ ForcesFrame
    /\ lastOp = NoOp
    /\ \E springConstant \in {One, R(2)}, restLength \in {Zero, One, R(2)} :
          /\ generators' = <<NewBungee(2, springConstant, restLength)>>
          /\ lastOp' = [name |-> "construct", kind |-> "bungee",
                        densities |-> {}, volume |-> One]
    /\ UNCHANGED particles

\* new ParticleSpring(other, springConstant, restLength)
ForcesConstructSpring ==
    /\ ForcesFrame
    /\ lastOp = NoOp
    /\ \E springConstant \in {One, R(2)}, restLength \in {Zero, One, R(2)} :
          /\ generators' = <<NewSpring(2, springConstant, restLength)>>
          /\ lastOp' = [name |-> "construct", kind |-> "spring",
                        densities |-> {}, volume |-> One]
    /\ UNCHANGED particles

\* new ParticleAnchoredSpring(anchorPoint, springConstant, restLength)
ForcesConstructAnchoredSpring ==
    /\ ForcesFrame
    /\ lastOp = NoOp
    /\ \E anchorPoint \in {Vec(0, 0, 0), Vec(0, 1, 0)},
          springConstant \in {One, R(2)}, restLength \in {Zero, One, R(2)} :
          /\ generators' = <<NewAnchoredSpring(anchorPoint, springConstant,
                                               restLength)>>
          /\ lastOp' = [name |-> "construct", kind |-> "anchoredSpring",
                        densities |-> {}, volume |-> One]
    /\ UNCHANGED particles

\* new ParticlePointGravity(gravityScalar, gravityPoint)
ForcesConstructPointGravity ==
    /\ ForcesFrame
    /\ lastOp = NoOp
    /\ \E gravityScalar \in {R(-1), One, R(8)},
          gravityPoint \in {Vec(0, 0, 0), <<Zero, Rat(1, 4), Zero>>,
                            Vec(0, 2, 0), Vec(0, 3, 0)} :
          /\ generators' = <<NewPointGravity(gravityScalar, gravityPoint)>>
          /\ lastOp' = [name |-> "construct", kind |-> "pointGravity",
                        densities |-> {}, volume |-> One]
    /\ UNCHANGED particles

\* new ParticleUplift(upliftForce, upliftPoint, upliftRadius,
\*                    maxUpliftHeight, gravity)
ForcesConstructUplift ==
    /\ ForcesFrame
    /\ lastOp = NoOp
    /\ \E upliftPoint \in {Vec(0, 0, 0), Vec(3, 0, 0)},
          upliftRadius \in {One, R(3)}, maxUpliftHeight \in {Zero, One} :
          /\ generators' = <<NewUplift(Vec(0, 5, 0), upliftPoint,
                                       upliftRadius, maxUpliftHeight,
                                       NewGravity(Vec(0, -10, 0)))>>
          /\ lastOp' = [name |-> "construct", kind |-> "uplift",
                        densities |-> {}, volume |-> One]
    /\ UNCHANGED particles

\* new ParticleWheelRoller(wheelCenter, rollForceScalar)
ForcesConstructWheelRoller ==
    /\ ForcesFrame
    /\ lastOp = NoOp
    /\ \E rollForceScalar \in {One, R(2)} :
          /\ generators' = <<NewWheelRoller(2, rollForceScalar)>>
          /\ lastOp' = [name |-> "construct", kind |-> "wheelRoller",
                        densities |-> {}, volume |-> One]
    /\ UNCHANGED particles

\* The inputs on which updateForce has an exact rational result: every
\* distance it measures is rational, the distance raised to 1.5 by the point
\* gravity is rational, and the mass read by the lighter-than-air generator
\* is finite.
Computable(fg, ps, p) ==
    IF fg.kind = "pointGravity"
    THEN LET sq == SquareMagnitude(VSub(fg.gravityPoint, ps[p].position))
         IN  HasRoot(sq) /\ (RLt(RSqrt(sq), Rat(1, 2)) \/ HasRoot(RSqrt(sq)))
    ELSE IF fg.kind = "uplift"
    THEN HasRoot(SquareMagnitude(VSub(fg.upliftPoint, ps[p].position)))
    ELSE IF fg.kind = "lighter" THEN hasFiniteMass(ps[p])
    ELSE TRUE

\* generators[0]->updateForce(particle 1, duration)
ForcesUpdateForce ==
    /\ ForcesFrame
    /\ lastOp.name = "construct"
    /\ generators[1] # Aborted
    /\ Computable(generators[1], particles, 1)
    /\ particles' = updateForce(generators[1], particles, 1, duration)
    /\ lastOp' = [name |-> "updateForce", kind |-> generators[1].kind,
                  densities |-> {}, volume |-> One]
    /\ UNCHANGED generators

NextForces ==
    \/ ForcesConstructBuoyancy
    \/ ForcesConstructLighterThanAir
    \/ ForcesConstructBungee
    \/ ForcesConstructSpring
    \/ ForcesConstructAnchoredSpring
    \/ ForcesConstructPointGravity
    \/ ForcesConstructUplift
    \/ ForcesConstructWheelRoller
    \/ ForcesUpdateForce

SpecForces == InitForces /\ [][NextForces]_vars

\* The force the last operation added to particle 1's accumulator.
ForceAdded == VSub(particles[1].forceAccum, pre[1].forceAccum)

\* C14 as stated: ParticleBuoyancy::updateForce adds exactly
\* (0, liquidDensity*volume, 0) when y <= waterHeight - maxDepth, and adds
\* nothing when y >= waterHeight + maxDepth.
C14_BuoyancyExtremesAsStated ==
    (lastOp.name = "updateForce" /\ lastOp.kind = "buoyancy") =>
        LET fg == generators[1]
            y == pre[1].position[2]
        IN  /\ RLe(y, RSub(fg.waterHeight, fg.maxDepth)) =>
                  ForceAdded = <<Zero, RMul(fg.liquidDensity, fg.volume), Zero>>
            /\ RGe(y, RAdd(fg.waterHeight, fg.maxDepth)) => particles = pre

\* C14, amended: ParticleBuoyancy::updateForce adds nothing when
\* y >= waterHeight + maxDepth; when y <= waterHeight - maxDepth and
\* y < waterHeight + maxDepth it adds exactly (0, liquidDensity*volume, 0)
\* to the particle's accumulator and changes nothing else.
C14_BuoyancyExtremes ==
    (lastOp.name = "updateForce" /\ lastOp.kind = "buoyancy") =>
        LET fg == generators[1]
            y == pre[1].position[2]
        IN  /\ RGe(y, RAdd(fg.waterHeight, fg.maxDepth)) => particles = pre
            /\ (/\ RLe(y, RSub(fg.waterHeight, fg.maxDepth))
                /\ RLt(y, RAdd(fg.waterHeight, fg.maxDepth))) =>
                  particles = addForce(pre, 1,
                      <<Zero, RMul(fg.liquidDensity, fg.volume), Zero>>)

\* A particle exactly at waterHeight - maxDepth, maxDepth 1, gets the full
\* force (0, 6, 0).
C14_Witness ==
    /\ lastOp.name = "updateForce"
    /\ lastOp.kind = "buoyancy"
    /\ generators[1].maxDepth = One
    /\ pre[1].position[2] = RSub(generators[1].waterHeight, One)
    /\ ForceAdded = Vec(0, 6, 0)

\* C16: constructing a ParticleBuoyancy or a ParticleLighterThanAir with a
\* non-positive liquid, air or particle density or a non-positive volume
\* fails an assertion: no usable generator results.
C16_InvalidBuoyancyAborts ==
    (/\ lastOp.name = "construct"
     /\ lastOp.kind \in {"buoyancy", "lighter"}
     /\ \/ \E density \in lastOp.densities : RLe(density, Zero)
        \/ RLe(lastOp.volume, Zero))
        => generators[1] = Aborted

\* C20: ParticleBungee::updateForce adds no force when the distance to the
\* other end is <= restLength; when the distance is greater the force it adds
\* points from the particle toward the other end and has magnitude
\* springConstant * (distance - restLength); it never adds a force directed
\* away from the other end.
C20_BungeeOnlyPullsBack ==
    (lastOp.name = "updateForce" /\ lastOp.kind = "bungee") =>
        LET fg == generators[1]
            toOther == VSub(pre[fg.other].position, pre[1].position)
            distance == Magnitude(toOther)
        IN  /\ RLe(distance, fg.restLength) => particles = pre
            /\ RGt(distance, fg.restLength) =>
                  ForceAdded =
                      VScale(Normalise(toOther),
                             RMul(fg.springConstant,
                                  RSub(distance, fg.restLength)))
            /\ RGe(Dot(ForceAdded, toOther), Zero)

\* C21: between the thresholds (waterHeight - maxDepth < y <
\* waterHeight + maxDepth) ParticleBuoyancy::updateForce, for a positive
\* liquidDensity*volume, adds the purely vertical linear interpolation of the
\* two end values, liquidDensity*volume * (waterHeight + maxDepth - y) /
\* (2 * maxDepth): upward and strictly between 0 and liquidDensity*volume.
C21_BuoyancyInterpolates ==
    (lastOp.name = "updateForce" /\ lastOp.kind = "buoyancy") =>
        LET fg == generators[1]
            y == pre[1].position[2]
            full == RMul(fg.liquidDensity, fg.volume)
        IN  (/\ RGt(y, RSub(fg.waterHeight, fg.maxDepth))
             /\ RLt(y, RAdd(fg.waterHeight, fg.maxDepth))
             /\ RGt(full, Zero)) =>
                /\ ForceAdded =
                       <<Zero,
                         RDiv(RMul(full, RSub(RAdd(fg.waterHeight, fg.maxDepth),
                                              y)),
                              RMul(R(2), fg.maxDepth)),
                         Zero>>
                /\ RGt(ForceAdded[2], Zero)
                /\ RLt(ForceAdded[2], full)

\* The other end of a spring: the other particle or the anchor point.
SpringEnd(fg, ps) ==
    IF fg.kind = "anchoredSpring" THEN fg.anchorPoint
    ELSE ps[fg.other].position

\* C22 as stated: ParticleSpring::updateForce and
\* ParticleAnchoredSpring::updateForce add a force along the separation
\* vector with magnitude springConstant * |distance - restLength| that
\* opposes the displacement vector (from the other endpoint to the particle),
\* stretched or compressed.
C22_SpringOpposesDisplacementAsStated ==
    (lastOp.name = "updateForce" /\ lastOp.kind \in {"spring", "anchoredSpring"})
        => LET fg == generators[1]
               displacement == VSub(pre[1].position, SpringEnd(fg, pre))
               extension == RSub(Magnitude(displacement), fg.restLength)
               size == RMul(fg.springConstant, extension)
           IN  /\ vectorProduct(ForceAdded, displacement) = VZero
               /\ SquareMagnitude(ForceAdded) = RMul(size, size)
               /\ RLe(Dot(ForceAdded, displacement), Zero)

\* C22, amended: ParticleSpring::updateForce and
\* ParticleAnchoredSpring::updateForce change only the particle's force
\* accumulator; for a particle away from the other endpoint the force added
\* lies along the separation vector, has magnitude
\* springConstant * |distance - restLength|, opposes the displacement vector
\* when the spring is stretched and points along it when the spring is
\* compressed; for a particle at the other endpoint no force is added.
C22_SpringRestores ==
    (lastOp.name = "updateForce" /\ lastOp.kind \in {"spring", "anchoredSpring"})
        => LET fg == generators[1]
               displacement == VSub(pre[1].position, SpringEnd(fg, pre))
               distance == Magnitude(displacement)
               extension == RSub(distance, fg.restLength)
               size == RMul(fg.springConstant, extension)
           IN  /\ particles = addForce(pre, 1, ForceAdded)
               /\ vectorProduct(ForceAdded, displacement) = VZero
               /\ RGt(distance, Zero) =>
                      SquareMagnitude(ForceAdded) = RMul(size, size)
               /\ RGt(extension, Zero) =>
                      RLt(Dot(ForceAdded, displacement), Zero)
               /\ (RLt(extension, Zero) /\ RGt(distance, Zero)) =>
                      RGt(Dot(ForceAdded, displacement), Zero)
               /\ distance = Zero => ForceAdded = VZero

\* A spring of rest length 2 compressed to length 1 pushes its particle away
\* from the other end.
C22_Witness ==
    /\ lastOp.name = "updateForce"
    /\ lastOp.kind = "spring"
    /\ generators[1].restLength = R(2)
    /\ generators[1].springConstant = R(2)
    /\ pre[1].position = Vec(0, 1, 0)
    /\ ForceAdded = Vec(0, 2, 0)

\* C23 as stated: for every particle, of finite or infinite mass, at a
\* distance < 0.5 from the attraction point ParticlePointGravity::updateForce
\* sets the velocity to zero and leaves forceAccum and position unchanged; at
\* a distance >= 0.5 it leaves the velocity unchanged and adds a force
\* directed toward the attraction point (gravityScalar > 0).
C23_PointGravityEveryMassAsStated ==
    (/\ lastOp.name = "updateForce"
     /\ lastOp.kind = "pointGravity"
     /\ RGt(generators[1].gravityScalar, Zero)) =>
        LET fg == generators[1]
            toPoint == VSub(fg.gravityPoint, pre[1].position)
            distance == Magnitude(toPoint)
        IN  /\ RLt(distance, Rat(1, 2)) =>
                  particles = setVelocity(pre, 1, VZero)
            /\ RGe(distance, Rat(1, 2)) =>
                  /\ particles = addForce(pre, 1, ForceAdded)
                  /\ vectorProduct(ForceAdded, toPoint) = VZero
                  /\ RGt(Dot(ForceAdded, toPoint), Zero)

\* C23, amended: an infinite-mass particle is left unchanged by
\* ParticlePointGravity::updateForce.  For a finite-mass particle at a
\* distance < 0.5 from the attraction point it sets the velocity to zero and
\* leaves forceAccum and position unchanged; at a distance >= 0.5 it leaves
\* the velocity unchanged and adds a force which, for a positive
\* gravityScalar, is directed toward the attraction point.
C23_PointGravityFiniteMass ==
    (lastOp.name = "updateForce" /\ lastOp.kind = "pointGravity") =>
        LET fg == generators[1]
            toPoint == VSub(fg.gravityPoint, pre[1].position)
            distance == Magnitude(toPoint)
        IN  /\ ~hasFiniteMass(pre[1]) => particles = pre
            /\ (hasFiniteMass(pre[1]) /\ RLt(distance, Rat(1, 2))) =>
                  particles = setVelocity(pre, 1, VZero)
            /\ (hasFiniteMass(pre[1]) /\ RGe(distance, Rat(1, 2))) =>
                  /\ particles = addForce(pre, 1, ForceAdded)
                  /\ vectorProduct(ForceAdded, toPoint) = VZero
                  /\ RGt(fg.gravityScalar, Zero) =>
                         RGt(Dot(ForceAdded, toPoint), Zero)

\* A moving finite-mass particle a quarter of a unit from the attraction
\* point is stopped and gets no force.
C23_Witness ==
    /\ lastOp.name = "updateForce"
    /\ lastOp.kind = "pointGravity"
    /\ hasFiniteMass(pre[1])
    /\ Magnitude(VSub(generators[1].gravityPoint, pre[1].position)) = Rat(1, 4)
    /\ pre[1].velocity = Vec(1, 0, 0)
    /\ particles[1].velocity = VZero
    /\ ForceAdded = VZero

\* C24 as stated: on a finite-mass particle ParticleUplift::updateForce is
\* decided by height alone, at any distance from the uplift point: below
\* maxUpliftHeight it adds upliftForce * mass and leaves the velocity
\* unchanged; at or above it, it sets the velocity to zero and adds
\* -(paired gravity) * mass.
C24_UpliftByHeightAloneAsStated ==
    (/\ lastOp.name = "updateForce"
     /\ lastOp.kind = "uplift"
     /\ hasFiniteMass(pre[1])) =>
        LET fg == generators[1]
            y == pre[1].position[2]
            mass == getMass(pre[1])
        IN  /\ RLt(y, fg.maxUpliftHeight) =>
                  particles = addForce(pre, 1, VScale(fg.upliftForce, mass))
            /\ RGe(y, fg.maxUpliftHeight) =>
                  particles = addForce(setVelocity(pre, 1, VZero), 1,
                                  VScale(fg.gravity.gravity, RNeg(mass)))

\* C24, amended: on a finite-mass particle whose distance to the uplift point
\* is at most upliftRadius, ParticleUplift::updateForce is decided by height:
\* below maxUpliftHeight it adds upliftForce * mass and leaves the velocity
\* unchanged; at or above it, it sets the velocity to zero and adds
\* -(paired gravity) * mass.  Farther than upliftRadius from the uplift point
\* it changes nothing.
C24_UpliftWithinRadius ==
    (/\ lastOp.name = "updateForce"
     /\ lastOp.kind = "uplift"
     /\ hasFiniteMass(pre[1])) =>
        LET fg == generators[1]
            y == pre[1].position[2]
            mass == getMass(pre[1])
            distance == Magnitude(VSub(fg.upliftPoint, pre[1].position))
        IN  /\ RGt(distance, fg.upliftRadius) => particles = pre
            /\ (RLe(distance, fg.upliftRadius) /\ RLt(y, fg.maxUpliftHeight))
                  => particles = addForce(pre, 1, VScale(fg.upliftForce, mass))
            /\ (RLe(distance, fg.upliftRadius) /\ RGe(y, fg.maxUpliftHeight))
                  => particles = addForce(setVelocity(pre, 1, VZero), 1,
                                     VScale(fg.gravity.gravity, RNeg(mass)))

\* A moving particle of mass 2 at the maximum height, three units to the
\* side of the uplift point and just inside its radius, is stopped and gets
\* the force (0, 20, 0) that cancels gravity.
C24_Witness ==
    /\ lastOp.name = "updateForce"
    /\ lastOp.kind = "uplift"
    /\ generators[1].upliftPoint = Vec(3, 0, 0)
    /\ generators[1].upliftRadius = R(3)
    /\ pre[1].position = VZero
    /\ pre[1].inverseMass = Rat(1, 2)
    /\ pre[1].velocity = Vec(1, 0, 0)
    /\ particles[1].velocity = VZero
    /\ ForceAdded = Vec(0, 20, 0)

\* C25: every generator's updateForce changes nothing except the given
\* particle's force accumulator: position, velocity, inverse mass, damping
\* and acceleration of every particle stay as they were.  The only
\* exceptions are the velocity clamps of ParticlePointGravity (distance
\* < 0.5) and ParticleUplift (at or above the maximum height), which set the
\* given particle's velocity to zero.
C25_OnlyForceAccumChanges ==
    (lastOp.name = "updateForce") =>
        LET fg == generators[1]
            clamps ==
                \/ /\ fg.kind = "pointGravity"
                   /\ RLt(Magnitude(VSub(fg.gravityPoint, pre[1].position)),
                          Rat(1, 2))
                \/ /\ fg.kind = "uplift"
                   /\ RGe(pre[1].position[2], fg.maxUpliftHeight)
        IN  /\ particles[2] = pre[2]
            /\ \/ particles = addForce(pre, 1, ForceAdded)
               \/ /\ clamps
                  /\ particles = addForce(setVelocity(pre, 1, VZero), 1,
                                          ForceAdded)

----------------------------------------------------------------------------
(* ParticleContact: guards, momentum and frame of the two resolve steps *)

\* C26: resolveVelocity and resolveInterpenetration leave every velocity,
\* every position and the contact's particleMovement unchanged when the
\* contact's total inverse mass is <= 0; resolveVelocity also changes nothing
\* when the separating velocity is > 0, and resolveInterpenetration nothing
\* when the penetration is <= 0.
C26_SkippedContactUnchanged ==
    LET c == hist.before[1]
        skipMass == RLe(totalInverseMass(c, pre), Zero)
    IN  /\ (/\ lastOp.name = "resolveVelocity"
            /\ skipMass \/ RGt(calculateSeparatingVelocity(c, pre), Zero))
               => (particles = pre /\ contacts = hist.before)
        /\ (/\ lastOp.name = "resolveInterpenetration"
            /\ skipMass \/ RLe(c.penetration, Zero))
               => (particles = pre /\ contacts = hist.before)

\* Two immovable particles closing on each other and overlapping by 1:
\* resolveInterpenetration has run and nothing has moved.
C26_Witness ==
    /\ lastOp.name = "resolveInterpenetration"
    /\ hist.ops = 2
    /\ contacts[1].particle[2] # NULL
    /\ totalInverseMass(contacts[1], pre) = Zero
    /\ contacts[1].penetration = One
    /\ RLt(calculateSeparatingVelocity(contacts[1], pre), Zero)
    /\ particles = pre

\* C27: resolveVelocity on a contact between two finite-mass particles
\* conserves momentum: mass0 * (change of velocity of particle[0]) +
\* mass1 * (change of velocity of particle[1]) = 0.
C27_MomentumConserved ==
    LET c == contacts[1]
    IN  (/\ lastOp.name = "resolveVelocity"
         /\ c.particle[2] # NULL
         /\ \A p \in Participants(c) : hasFiniteMass(pre[p])) =>
            LET p0 == c.particle[1]
                p1 == c.particle[2]
                dv0 == VSub(particles[p0].velocity, pre[p0].velocity)
                dv1 == VSub(particles[p1].velocity, pre[p1].velocity)
            IN  VAdd(VScale(dv0, getMass(pre[p0])),
                     VScale(dv1, getMass(pre[p1]))) = VZero

\* What the two resolve steps never touch: a particle's inverse mass,
\* acceleration, force accumulator and damping.
ParticleConstantsKept(p) ==
    /\ particles[p].inverseMass = pre[p].inverseMass
    /\ particles[p].acceleration = pre[p].acceleration
    /\ particles[p].forceAccum = pre[p].forceAccum
    /\ particles[p].damping = pre[p].damping

\* C30: resolveVelocity changes no position and leaves the contact's
\* penetration and particleMovement alone; resolveInterpenetration changes no
\* velocity; neither changes a particle's inverse mass, acceleration or force
\* accumulator, nor the contact's normal and restitution.
C30_ResolveStepsFrame ==
    /\ lastOp.name = "resolveVelocity" =>
          /\ \A p \in 1..Len(particles) :
                /\ particles[p].position = pre[p].position
                /\ ParticleConstantsKept(p)
          /\ contacts = hist.before
    /\ lastOp.name = "resolveInterpenetration" =>
          /\ \A p \in 1..Len(particles) :
                /\ particles[p].velocity = pre[p].velocity
                /\ ParticleConstantsKept(p)
          /\ contacts[1].contactNormal = hist.before[1].contactNormal
          /\ contacts[1].restitution = hist.before[1].restitution
          /\ contacts[1].penetration = hist.before[1].penetration
          /\ contacts[1].particle = hist.before[1].particle

\* An overlapping contact between two moving particles: resolveVelocity has
\* changed velocities, then resolveInterpenetration has moved the particles
\* and kept those velocities.
C30_Witness ==
    /\ lastOp.name = "resolveInterpenetration"
    /\ hist.ops = 2
    /\ contacts[1].particle[2] # NULL
    /\ particles[1].position # pre[1].position
    /\ particles[2].position # pre[2].position
    /\ particles[1].velocity = pre[1].velocity
    /\ particles[1].velocity # VZero
    /\ particles[2].velocity # Vec(-1, 0, 0)
    /\ particles[2].velocity # Vec(2, -1, 0)
    /\ particles[2].velocity # VZero

----------------------------------------------------------------------------
(* ParticleContactResolver: position correction over one call *)

\* C28: within one resolveContacts call the cumulative position correction
\* applied to a contact's particles along the contact normal never exceeds
\* the penetration recorded in the contact, however often the contact is
\* selected in the call.
C28_CorrectionWithinPenetration ==
    hist.pc # "idle" =>
        \A j \in 1..Len(contacts) :
            RLe(hist.corrected[j],
                IF RGt(contacts[j].penetration, Zero)
                THEN contacts[j].penetration ELSE Zero)

----------------------------------------------------------------------------
(* SpecUplift: the uplift demo's tick on a particle with a gravity and an  *)
(* uplift generator that counters it                                       *)

\* The ground of UpliftDemo::update: a particle found below y = 0 after its
\* integration is put back above it and stopped.
groundBounce(p) ==
    IF RLt(p.position[2], Zero)
    THEN [p EXCEPT !.position = <<p.position[1], RNeg(p.position[2]),
                                  p.position[3]>>,
                   !.velocity = VZero]
    ELSE p

\* UpliftDemo::update: nothing for a duration <= 0; else the registry's
\* updateForces, then integrate and the ground test on every particle but
\* the first of the array.
upliftDemoUpdate(regs, gens, ps, dur) ==
    LET forced == updateForces(regs, gens, ps, dur).ps
    IN  IF RLe(dur, Zero) THEN ps
        ELSE [i \in 1..Len(ps) |->
                 IF i = 1 THEN forced[i]
                 ELSE groundBounce(integrate(forced[i], dur))]

\* Ticks of one behaviour.
MaxTicks == 3

TickDurations == {Zero, One, R(2)}
UpliftVelocities == {VZero, Vec(0, 1, 0), Vec(0, -2, 0)}

\* Particle 2 is the particle under test; generator 1 is the gravity,
\* generator 2 the uplift paired with it.  hist.start is particle 2 as the
\* host set it up.
InitUplift ==
    /\ \E y \in {R(-1), Zero, One, R(2)}, v \in UpliftVelocities,
          a \in Accelerations, im \in {One, Rat(1, 2)}, d \in Dampings :
          particles = <<NewParticle(Vec(0, 0, 0), VZero, VZero, One),
                        [NewParticle(<<Zero, y, Zero>>, v, a, im)
                            EXCEPT !.damping = d]>>
    /\ \E upliftRadius \in {One, R(30)} :
          generators = <<NewGravity(Vec(0, -10, 0)),
                         NewUplift(Vec(0, 20, 0), Vec(0, 0, 0), upliftRadius,
                                   One, NewGravity(Vec(0, -10, 0)))>>
    /\ contacts = <<>>
    /\ duration \in Durations
    /\ link = NoLink
    /\ registrations = <<>>
    /\ world = NoWorld
    /\ resolver = NoResolver
    /\ lastOp = NoOp
    /\ retval = 0
    /\ pre = particles
    /\ hist = [ticks |-> 0, start |-> particles[2]]

UpliftFrame ==
    /\ pre' = particles
    /\ UNCHANGED <<contacts, link, generators, world, resolver, retval>>

\* registry.add(particle, &particleGravity) or
\* registry.add(particle, &particleUplift), each once, in either order.
UpliftRegister ==
    /\ UpliftFrame
    /\ \E g \in 1..Len(generators) :
          /\ \A k \in 1..Len(registrations) : registrations[k].fg # g
          /\ registrations' = registryAdd(registrations, 2, g)
    /\ lastOp' = Call("add")
    /\ UNCHANGED <<particles, duration, hist>>

\* One tick: UpliftDemo::update with the duration of the last frame.
UpliftUpdate ==
    /\ UpliftFrame
    /\ hist.ticks < MaxTicks
    /\ \A k \in 1..Len(registrations) :
          Computable(generators[registrations[k].fg], particles,
                     registrations[k].particle)
    /\ \E d \in TickDurations :
          /\ duration' = d
          /\ particles' = upliftDemoUpdate(registrations, generators,
                                           particles, d)
    /\ lastOp' = Call("update")
    /\ hist' = [hist EXCEPT !.ticks = @ + 1]
    /\ UNCHANGED registrations

NextUplift ==
    \/ UpliftRegister
    \/ UpliftUpdate

SpecUplift == InitUplift /\ [][NextUplift]_vars

\* Particle p of ps is held by the uplift: the gravity and the uplift paired
\* with it are both registered on it, it has finite mass and no constant
\* acceleration, and it is within the uplift radius at or above the maximum
\* uplift height.
LevitationLocked(ps, p) ==
    /\ \E k \in 1..Len(registrations) :
          registrations[k] = NewRegistration(p, 1)
    /\ \E k \in 1..Len(registrations) :
          registrations[k] = NewRegistration(p, 2)
    /\ hasFiniteMass(ps[p])
    /\ ps[p].acceleration = VZero
    /\ RLe(Magnitude(VSub(generators[2].upliftPoint, ps[p].position)),
           generators[2].upliftRadius)
    /\ RGe(ps[p].position[2], generators[2].maxUpliftHeight)

\* C29: once a particle is held by the uplift, every tick of positive
\* duration leaves its position unchanged and its velocity zero, so it is
\* still held afterwards, whichever generator was registered first.
C29_LevitationLock ==
    (/\ lastOp.name = "update"
     /\ RGt(duration, Zero)
     /\ LevitationLocked(pre, 2)) =>
        /\ particles[2].position = pre[2].position
        /\ particles[2].velocity = VZero
        /\ LevitationLocked(particles, 2)

\* A particle that started below the maximum height with the uplift
\* registered before the gravity, reached that height moving, and was then
\* stopped and held there by a tick.
C29_Witness ==
    /\ lastOp.name = "update"
    /\ RGt(duration, Zero)
    /\ hist.ticks >= 2
    /\ LevitationLocked(pre, 2)
    /\ registrations[1].fg = 2
    /\ RLt(hist.start.position[2], generators[2].maxUpliftHeight)
    /\ pre[2].velocity # VZero
    /\ particles[2].velocity = VZero
    /\ particles[2].position = pre[2].position

====
